---- MODULE Spec2Model ----
(***************************************************************************)
(* Saturation inference core of polysat (src/math/polysat/saturation.cpp). *)
(*                                                                         *)
(* Polynomials over the polynomial variables Vars with coefficients modulo *)
(* 2^K are kept in a canonical sparse form (monomial -> non-zero           *)
(* coefficient), signed constraints are records, the boolean trail is      *)
(* m_search, and one action models one whole call of an entry point of    *)
(* class saturation.                                                       *)
(***************************************************************************)
EXTENDS Integers, Sequences, FiniteSets, TLC

\* ------------------------------------------------------------------ bounds
\* bit width of the polynomial variables (power_of_2())
K == 3
\* number of polynomial variables (pvar handles 1..NumVars)
NumVars == 3
\* largest exponent of one variable in a monomial of the model
MaxDeg == 2
\* calls of an entry point of saturation in one behaviour
MaxCalls == 1

\* theory variables of the bit-vector adapter (handles 1..NumThVars)
NumThVars == 2
\* slices one walk of the e-graph hands to its visitor
MaxVisits == 3
\* largest offset of a slice in a walk
MaxOffset == 1

RECURSIVE Pow(_, _)
Pow(b, e) == IF e = 0 THEN 1 ELSE b * Pow(b, e - 1)

\* 2^K (two_to_N())
two_to_N == Pow(2, K)

Vars == 1..NumVars
Vals == 0..(two_to_N - 1)

\* ------------------------------------------------------------- polynomials
\* A monomial is the number whose base-(MaxDeg+1) digits are the exponents.
Base == MaxDeg + 1
VarMono == [i \in Vars |-> Pow(Base, i - 1)]
Exp(m, i) == (m \div VarMono[i]) % Base

RECURSIVE SumFn(_, _)
SumFn(f, S) ==
    IF S = {} THEN 0
    ELSE LET x == CHOOSE y \in S : TRUE IN f[x] + SumFn(f, S \ {x})

RECURSIVE MaxOf(_)
MaxOf(S) ==
    IF S = {} THEN 0
    ELSE LET x == CHOOSE y \in S : TRUE
             r == MaxOf(S \ {x})
         IN IF x > r THEN x ELSE r

Coef(p, m) == IF m \in DOMAIN p THEN p[m] ELSE 0

\* drop the zero coefficients: the canonical form of a polynomial
Norm(D, c) == LET S == {m \in D : c[m] % two_to_N # 0} IN [m \in S |-> c[m] % two_to_N]

zero == Norm({}, [m \in {} |-> 0])
Const(k) == Norm({0}, [m \in {0} |-> k % two_to_N])
one == Const(1)
var(i) == [m \in {VarMono[i]} |-> 1]

Add(p, q) ==
    LET D == DOMAIN p \cup DOMAIN q
    IN Norm(D, [m \in D |-> Coef(p, m) + Coef(q, m)])

Neg(p) == [m \in DOMAIN p |-> (two_to_N - p[m]) % two_to_N]

Sub(p, q) == Add(p, Neg(q))

Mul(p, q) ==
    LET D == {m1 + m2 : m1 \in DOMAIN p, m2 \in DOMAIN q}
        c == [m \in D |->
                LET S == {m1 \in DOMAIN p : (m - m1) \in DOMAIN q}
                IN SumFn([m1 \in S |-> p[m1] * q[m - m1]], S)]
    IN Norm(D, c)

\* no exponent of a product of p and q leaves 0..MaxDeg
MulFits(p, q) ==
    \A m1 \in DOMAIN p, m2 \in DOMAIN q, i \in Vars : Exp(m1, i) + Exp(m2, i) <= MaxDeg

is_val(p) == DOMAIN p \subseteq {0}
val(p) == Coef(p, 0)
is_zero(p) == DOMAIN p = {}
is_one(p) == p = one
is_max(p) == p = Const(two_to_N - 1)
is_var(p) == \E i \in Vars : p = var(i)
free_vars(p) == {i \in Vars : \E m \in DOMAIN p : Exp(m, i) > 0}

\* p = c*x for one variable x and a constant c
is_unary(p) ==
    /\ Cardinality(DOMAIN p) = 1
    /\ \E i \in Vars : DOMAIN p = {VarMono[i]}
unary_var(p) == CHOOSE i \in Vars : DOMAIN p = {VarMono[i]}
unary_coeff(p) == p[VarMono[unary_var(p)]]

degree(p, v) == MaxOf({Exp(m, v) : m \in DOMAIN p})

\* p = lc * v + rest with degree(rest, v) = 0
factor_lc(p, v) ==
    LET S == {m \in DOMAIN p : Exp(m, v) >= 1}
        D == {m - VarMono[v] : m \in S}
    IN [m \in D |-> p[m + VarMono[v]]]
factor_rest(p, v) ==
    LET S == {m \in DOMAIN p : Exp(m, v) = 0} IN [m \in S |-> p[m]]

\* p = k * out with every coefficient divided exactly
try_div_ok(p, k) == k # 0 /\ \A m \in DOMAIN p : p[m] % k = 0
try_div_out(p, k) == [m \in DOMAIN p |-> p[m] \div k]

\* ------------------------------------------------------------- evaluation
Unassigned == -1

RECURSIVE MonoVal(_, _, _)
MonoVal(m, a, i) ==
    IF i > NumVars THEN 1
    ELSE Pow(a[i], Exp(m, i)) * MonoVal(m, a, i + 1)

\* value of p under a, every variable of p being assigned by a
EvalIn(p, a) ==
    SumFn([m \in DOMAIN p |-> p[m] * MonoVal(m, a, 1)], DOMAIN p) % two_to_N
CanEval(p, a) == \A i \in free_vars(p) : a[i] # Unassigned

\* ------------------------------------------------------ signed constraints
\* A signed constraint is an atom (p <= q, or umul_ovfl(p, q)) with a polarity.
ule(p, q) == [kind |-> "ule", pos |-> TRUE, p |-> p, q |-> q]
umul_ovfl(p, q) == [kind |-> "umul_ovfl", pos |-> TRUE, p |-> p, q |-> q]
neg(c) == [c EXCEPT !.pos = ~c.pos]
ult(p, q) == neg(ule(q, p))
eq(p) == ule(p, zero)
eq_k(p, k) == eq(Sub(p, Const(k)))
uge(p, k) == ule(Const(k), p)

\* An unsigned value is kept as the small integer congruent to it modulo 2^32:
\* a negative d stands for the wrapped value 2^32 + d.
\* 2^e modulo 2^K, for an unsigned e (a wrapped e is at least K)
Pow2Mod(e) == IF e < 0 \/ e >= K THEN 0 ELSE Pow(2, e)
\* parity(p) >= k, that is p * 2^(K-k) = 0, the exponent K-k computed in unsigned
parity(p, k) == eq(Mul(p, Const(Pow2Mod(K - k))))
even(p) == parity(p, 1)
odd(p) == neg(even(p))

is_ule(c) == c.kind = "ule"
is_umul_ovfl(c) == c.kind = "umul_ovfl"
is_negative(c) == ~c.pos
cnstr_vars(c) == free_vars(c.p) \cup free_vars(c.q)

\* the same atom: the constraint store holds umul_ovfl(p, q) once for both orders
same_atom(c, d) ==
    /\ c.kind = d.kind
    /\ \/ c.p = d.p /\ c.q = d.q
       \/ c.kind = "umul_ovfl" /\ c.p = d.q /\ c.q = d.p

\* truth of c under an assignment a of all its variables
Holds(c, a) ==
    LET atom == IF c.kind = "ule" THEN EvalIn(c.p, a) <= EvalIn(c.q, a)
                ELSE EvalIn(c.p, a) * EvalIn(c.q, a) >= two_to_N
    IN atom = c.pos

\* ------------------------------------------------------------------- state
VARIABLES
    assignment,   \* value of each pvar, or Unassigned
    m_search,     \* the trail: boolean entries and variable assignments
    core,         \* the conflict: its constraints, in insertion order
    conflict_var, \* the variable the conflict analysis resolves
    core_lemmas,  \* the lemmas handed to conflict.add_lemma, in order
    m_lemma,      \* the lemma builder's literals
    m_rule,       \* the current rule tag
    tried,        \* the rules attempted by the calls so far, in order
    last_call,    \* the last call: entry point, result, lemmas it added
    ncalls,       \* calls made
    m_var2pdd,    \* the polynomial of each theory variable
    bv_walk,      \* the slices (e-node class, offset) the e-graph walk visits, in order
    out,          \* the offset_slices a slice query has filled
    bv_call,      \* the slice query made, or "none"
    parity_subs,  \* the pairs <<b_parity, i>> try_parity has computed b_parity - i for
    fixed_val     \* the numeral explain_fixed has built: its value and its bit width

vars == <<assignment, m_search, core, conflict_var, core_lemmas, m_lemma, m_rule,
          tried, last_call, ncalls, m_var2pdd, bv_walk, out, bv_call, parity_subs,
          fixed_val>>

\* ----------------------------------------------------------- premise oracle
try_eval_ok(p) == CanEval(p, assignment)
try_eval_val(p) == EvalIn(p, assignment)

l_true == "l_true"
l_false == "l_false"
l_undef == "l_undef"

\* boolean value of c: its assignment on the trail
bvalue(c) ==
    IF \E k \in 1..Len(m_search) :
          m_search[k].is_boolean /\ same_atom(m_search[k].lit, c) /\ m_search[k].lit.pos = c.pos
    THEN l_true
    ELSE IF \E k \in 1..Len(m_search) :
          m_search[k].is_boolean /\ same_atom(m_search[k].lit, c) /\ m_search[k].lit.pos # c.pos
    THEN l_false
    ELSE l_undef

is_currently_true(c) ==
    /\ \A i \in cnstr_vars(c) : assignment[i] # Unassigned
    /\ Holds(c, assignment)
is_currently_false(c) ==
    /\ \A i \in cnstr_vars(c) : assignment[i] # Unassigned
    /\ ~Holds(c, assignment)

is_forced_false(c) == bvalue(c) = l_false \/ is_currently_false(c)
is_forced_true(c) == bvalue(c) = l_true \/ is_currently_true(c)

is_forced_eq(p, v) == try_eval_ok(p) /\ try_eval_val(p) = v

\* the literal is_forced_diseq and is_forced_odd hand back
is_forced_diseq_c(p, i) == eq_k(p, i)
is_forced_diseq(p, i) == is_forced_false(is_forced_diseq_c(p, i))
is_forced_odd(p) == is_forced_true(odd(p))

\* ------------------------------------------------------------- inequality
\* from_ule: p <= q as it is, not(p <= q) as q < p
from_ule(c) ==
    IF c.pos THEN [lhs |-> c.p, rhs |-> c.q, is_strict |-> FALSE, src |-> c]
    ELSE [lhs |-> c.q, rhs |-> c.p, is_strict |-> TRUE, src |-> c]
as_signed_constraint(i) == i.src

ineq(is_strict, lhs, rhs) == IF is_strict THEN ult(lhs, rhs) ELSE ule(lhs, rhs)

\* --------------------------------------------------------- pattern matchers
\* Match [v] .. <= v
is_l_v(v, i) == i.rhs = var(v)
\* Match [v] v <= ...
is_g_v(v, i) == i.lhs = var(v)

\* is_xY that does not look at the rest of the factoring
is_xY_ignores_rest(x, xy) == degree(xy, x) = 1

\* Match xy = x * Y; the binding is xY_y
is_xY(x, xy) == degree(xy, x) = 1 /\ is_zero(factor_rest(xy, x))
xY_y(x, xy) == factor_lc(xy, x)

\* Match [coeff*x] coeff*x*Y where x is a variable; the binding is coeffxY_y
is_coeffxY(x, p) ==
    /\ is_unary(x)
    /\ try_div_ok(p, unary_coeff(x))
    /\ is_zero(factor_rest(try_div_out(p, unary_coeff(x)), unary_var(x)))
coeffxY_y(x, p) == factor_lc(try_div_out(p, unary_coeff(x)), unary_var(x))

\* Match [x] y <= a*x
is_Y_l_Ax(x, i) == is_xY(x, i.rhs)
\* Match [x] xY <= xZ
is_xY_l_xZ(x, i) == is_xY(x, i.lhs) /\ is_xY(x, i.rhs)
\* Match [v] v*x <= z*x with x a variable
is_Xy_l_XZ(v, i) == is_xY(v, i.lhs) /\ is_coeffxY(xY_y(v, i.lhs), i.rhs)
\* Match [z] yx <= zx with x a variable
is_YX_l_zX(z, i) == is_xY(z, i.rhs) /\ is_coeffxY(xY_y(z, i.rhs), i.lhs)
\* Match [x] a*x + b <= y, val(y) = 0
is_AxB_eq_0(x, i) ==
    /\ try_eval_ok(i.rhs) /\ try_eval_val(i.rhs) = 0
    /\ degree(i.lhs, x) = 1

\* Match [x] a*x <= y
is_Ax_l_Y(x, i) == is_xY(x, i.lhs)
\* Match [x] a*x + b <= y: a and b are compared with the factoring, not bound
is_AxB_l_Y(x, i, a, b) ==
    /\ degree(i.lhs, x) = 1
    /\ factor_lc(i.lhs, x) = a /\ factor_rest(i.lhs, x) = b

verify_Y_l_Ax(x, i, a, y) == i.lhs = y /\ i.rhs = Mul(a, var(x))
verify_Ax_l_Y(x, i, a, y) == i.rhs = y /\ i.lhs = Mul(a, var(x))
verify_AxB_l_Y(x, i, a, b, y) == i.rhs = y /\ i.lhs = Add(Mul(a, var(x)), b)
verify_AxB_eq_0(x, i, a, b, y) ==
    /\ is_val(y) /\ val(y) = 0
    /\ i.rhs = y /\ i.lhs = Add(Mul(a, var(x)), b)
verify_Xy_l_XZ(v, i, x, z) == i.lhs = Mul(var(v), x) /\ i.rhs = Mul(z, x)
verify_YX_l_zX(z, c, x, y) == c.lhs = Mul(y, x) /\ c.rhs = Mul(var(z), x)

\* Determine whether values of x * y is non-overflowing.
is_non_overflow_val(x, y) ==
    /\ try_eval_ok(x) /\ try_eval_ok(y)
    /\ try_eval_val(x) * try_eval_val(y) < two_to_N

\* the trail entries is_non_overflow accepts as a witness for x, y
non_overflow_entries(x, y) ==
    {k \in 1..Len(m_search) :
        /\ m_search[k].is_boolean
        /\ ~m_search[k].is_resolved
        /\ is_umul_ovfl(m_search[k].lit) /\ is_negative(m_search[k].lit)
        /\ ~(x # m_search[k].lit.p /\ x # m_search[k].lit.q)
        /\ ~(y # m_search[k].lit.p /\ y # m_search[k].lit.q)}

MinOf(S) == CHOOSE x \in S : \A y \in S : x <= y

is_non_overflow(x, y) ==
    is_non_overflow_val(x, y) \/ non_overflow_entries(x, y) # {}
\* the witness is_non_overflow hands back
non_overflow_c(x, y) ==
    IF is_non_overflow_val(x, y) THEN neg(umul_ovfl(x, y))
    ELSE m_search[MinOf(non_overflow_entries(x, y))].lit

\* ------------------------------------------------------------ lemma builder
\* The engine's own state: st = [m_lemma, m_rule, lemmas, tried, subs].
reset(st) == [st EXCEPT !.m_lemma = <<>>]
insert(st, c) == [st EXCEPT !.m_lemma = Append(@, [lit |-> c, eval |-> FALSE])]
insert_eval(st, c) == [st EXCEPT !.m_lemma = Append(@, [lit |-> c, eval |-> TRUE])]
set_rule(st, tag, name) == [st EXCEPT !.m_rule = tag, !.tried = Append(@, name)]
\* core.add_lemma(m_rule, m_lemma.build())
add_lemma(st, mode) ==
    [st EXCEPT !.lemmas = Append(@, [rule |-> st.m_rule, lits |-> st.m_lemma, mode |-> mode]),
               !.m_lemma = <<>>]

Ret(r, st) == [ret |-> r, st |-> st]

\* propagate without the test for a consequent that is already forced true
propagate_redundant(st, crit, c) ==
    Ret(TRUE, add_lemma(insert(insert(st, neg(as_signed_constraint(crit))), c), "propagate"))

propagate(st, crit, c) ==
    IF is_forced_true(c) THEN Ret(FALSE, st)
    ELSE Ret(TRUE, add_lemma(insert(insert(st, neg(as_signed_constraint(crit))), c), "propagate"))

\* add_conflict without the test for a consequent that is true on the trail
add_conflict2_no_bvalue_test(st, i1, i2, c) ==
    LET crit1 == as_signed_constraint(i1)
        crit2 == as_signed_constraint(i2)
        st1 == insert(st, neg(crit1))
        st2 == IF crit1 # crit2 THEN insert(st1, neg(crit2)) ELSE st1
    IN IF ~is_forced_false(c) THEN Ret(FALSE, st2)
       ELSE Ret(TRUE, add_lemma(insert_eval(st2, c), "conflict"))

add_conflict2(st, i1, i2, c) ==
    LET crit1 == as_signed_constraint(i1)
        crit2 == as_signed_constraint(i2)
        st1 == insert(st, neg(crit1))
        st2 == IF crit1 # crit2 THEN insert(st1, neg(crit2)) ELSE st1
    IN IF ~is_forced_false(c) THEN Ret(FALSE, st2)
       ELSE IF bvalue(c) = l_true THEN Ret(FALSE, st2)
       ELSE Ret(TRUE, add_lemma(insert_eval(st2, c), "conflict"))

add_conflict(st, crit1, c) == add_conflict2(st, crit1, crit1, c)

\* a scan that takes resolved entries as well
is_scanned_also_resolved(k) ==
    /\ m_search[k].is_boolean
    /\ is_ule(m_search[k].lit)

\* the boolean, unresolved <=-entries of the trail, which the rules scan in order
is_scanned(k) ==
    /\ m_search[k].is_boolean
    /\ ~m_search[k].is_resolved
    /\ is_ule(m_search[k].lit)

\* the rule tags set_rule stores with the lemma
tag_ugt_x == "[x] yx <= zx"
tag_ugt_y == "[y] z' <= y & yx <= zx"
tag_ugt_z == "[z] z <= y' && yx <= zx"
tag_y_l_ax_and_x_l_z == "[x] y <= ax & x <= z"
tag_mul_bounds == "[x] a*x + b = 0 & b = 0 => a = 0 or x = 0 or ovfl(a, x)"
tag_mul_eq_1 == "[x] ax + b <= y & y = 0 & b = -1 & ~ovfl(a,x) => x = 1"
tag_parity == "[x] a*x + b = 0 => (odd(a) & odd(x) <=> odd(b))"
tag_mul_odd == "[x] ax = 0 => a = 0 or even(x)"
tag_tangent == "[x] p(x) <= q(x) where value(p) > value(q)"

\* the tag each rule sets with set_rule
RuleTag ==
    [try_ugt_x |-> tag_ugt_x, try_ugt_y |-> tag_ugt_y, try_ugt_z |-> tag_ugt_z,
     try_y_l_ax_and_x_l_z |-> tag_y_l_ax_and_x_l_z, try_mul_bounds |-> tag_mul_bounds,
     try_mul_eq_1 |-> tag_mul_eq_1, try_parity |-> tag_parity, try_mul_odd |-> tag_mul_odd,
     try_tangent |-> tag_tangent]

\* the next attempt F is made, on the state r left, only if r did not fire
OrElse(r, F(_)) == IF r.ret THEN r ELSE F(r.st)

\* ------------------------------------------------------------------- ugt_x
\* try_ugt_x without the literal x = 0 of the non-strict case
try_ugt_x_without_eq(st, v, xy_l_xz) ==
    LET st1 == set_rule(st, tag_ugt_x, "try_ugt_x")
        x == var(v)
        y == xY_y(v, xy_l_xz.lhs)
    IN IF ~is_xY_l_xZ(v, xy_l_xz) THEN Ret(FALSE, st1)
       ELSE IF ~is_non_overflow(x, y) THEN Ret(FALSE, st1)
       ELSE add_conflict(insert_eval(reset(st1), neg(non_overflow_c(x, y))), xy_l_xz,
                         ineq(xy_l_xz.is_strict, y, xY_y(v, xy_l_xz.rhs)))

\*  [x] yx < zx   ==>  Omega*(x,y) \/ y < z
\*  [x] yx <= zx  ==>  Omega*(x,y) \/ y <= z \/ x = 0
try_ugt_x(st, v, xy_l_xz) ==
    LET st1 == set_rule(st, tag_ugt_x, "try_ugt_x")
        x == var(v)
        y == xY_y(v, xy_l_xz.lhs)
        z == xY_y(v, xy_l_xz.rhs)
    IN IF ~is_xY_l_xZ(v, xy_l_xz) THEN Ret(FALSE, st1)
       ELSE IF ~xy_l_xz.is_strict /\ assignment[v] # Unassigned /\ assignment[v] = 0
       THEN Ret(FALSE, st1)
       ELSE IF ~is_non_overflow(x, y) THEN Ret(FALSE, st1)
       ELSE LET st2 == insert_eval(reset(st1), neg(non_overflow_c(x, y)))
                st3 == IF ~xy_l_xz.is_strict THEN insert_eval(st2, eq(x)) ELSE st2
            IN add_conflict(st3, xy_l_xz, ineq(xy_l_xz.is_strict, y, z))

\* ------------------------------------------------------------------- ugt_y
\* [y] z' <= y /\ yx <= zx  ==>  Omega*(x,y) \/ z'x <= zx, strict if a premise is
\* the attempt with one trail entry, made without resetting the builder
try_ugt_y_entry_without_reset(st, v, l_y, yx_l_zx, x, z) ==
    LET y == var(v)
        z_prime == l_y.lhs
    IN IF ~is_non_overflow(x, y) THEN Ret(FALSE, st)
       ELSE add_conflict2(insert_eval(st, neg(non_overflow_c(x, y))), l_y, yx_l_zx,
                          ineq(yx_l_zx.is_strict \/ l_y.is_strict, Mul(z_prime, x), Mul(z, x)))

try_ugt_y_entry(st, v, l_y, yx_l_zx, x, z) ==
    LET y == var(v)
        z_prime == l_y.lhs
    IN IF ~is_non_overflow(x, y) THEN Ret(FALSE, st)
       ELSE add_conflict2(insert_eval(reset(st), neg(non_overflow_c(x, y))), l_y, yx_l_zx,
                          ineq(yx_l_zx.is_strict \/ l_y.is_strict, Mul(z_prime, x), Mul(z, x)))

RECURSIVE scan_ugt_y(_, _, _, _, _, _)
scan_ugt_y(st, v, yx_l_zx, x, z, k) ==
    IF k > Len(m_search) THEN Ret(FALSE, st)
    ELSE IF is_scanned(k) /\ is_l_v(v, from_ule(m_search[k].lit))
    THEN OrElse(try_ugt_y_entry(st, v, from_ule(m_search[k].lit), yx_l_zx, x, z),
                LAMBDA s : scan_ugt_y(s, v, yx_l_zx, x, z, k + 1))
    ELSE scan_ugt_y(st, v, yx_l_zx, x, z, k + 1)

try_ugt_y(st, v, yx_l_zx) ==
    LET st1 == set_rule(st, tag_ugt_y, "try_ugt_y")
        x == xY_y(v, yx_l_zx.lhs)
        z == coeffxY_y(x, yx_l_zx.rhs)
    IN IF ~is_Xy_l_XZ(v, yx_l_zx) THEN Ret(FALSE, st1)
       ELSE scan_ugt_y(st1, v, yx_l_zx, x, z, 1)

\* ------------------------------------------------------------------- ugt_z
\* [z] z <= y' /\ yx <= zx  ==>  Omega*(x,y') \/ yx <= y'x, strict if a premise is
try_ugt_z_entry(st, z, z_l_y, yx_l_zx, x, y) ==
    LET y_prime == z_l_y.rhs
    IN IF ~is_non_overflow(x, y_prime) THEN Ret(FALSE, st)
       ELSE add_conflict2(insert_eval(reset(st), neg(non_overflow_c(x, y_prime))), yx_l_zx, z_l_y,
                          ineq(z_l_y.is_strict \/ yx_l_zx.is_strict, Mul(y, x), Mul(y_prime, x)))

RECURSIVE scan_ugt_z(_, _, _, _, _, _)
scan_ugt_z(st, z, yx_l_zx, x, y, k) ==
    IF k > Len(m_search) THEN Ret(FALSE, st)
    ELSE IF is_scanned(k) /\ is_g_v(z, from_ule(m_search[k].lit))
    THEN OrElse(try_ugt_z_entry(st, z, from_ule(m_search[k].lit), yx_l_zx, x, y),
                LAMBDA s : scan_ugt_z(s, z, yx_l_zx, x, y, k + 1))
    ELSE scan_ugt_z(st, z, yx_l_zx, x, y, k + 1)

try_ugt_z(st, z, yx_l_zx) ==
    LET st1 == set_rule(st, tag_ugt_z, "try_ugt_z")
        x == xY_y(z, yx_l_zx.rhs)
        y == coeffxY_y(x, yx_l_zx.lhs)
    IN IF ~is_YX_l_zX(z, yx_l_zx) THEN Ret(FALSE, st1)
       ELSE scan_ugt_z(st1, z, yx_l_zx, x, y, 1)

\* -------------------------------------------------------- y_l_ax_and_x_l_z
\* [x] y <= ax /\ x <= z  ==>  Omega*(a,z) \/ y <= az, strict if a premise is
try_y_l_ax_and_x_l_z_entry(st, x, y_l_ax, x_l_z, a, y) ==
    LET z == x_l_z.rhs
    IN IF ~is_non_overflow(a, z) THEN Ret(FALSE, st)
       ELSE add_conflict2(insert_eval(reset(st), neg(non_overflow_c(a, z))), y_l_ax, x_l_z,
                          ineq(x_l_z.is_strict \/ y_l_ax.is_strict, y, Mul(a, z)))

RECURSIVE scan_y_l_ax_and_x_l_z(_, _, _, _, _, _)
scan_y_l_ax_and_x_l_z(st, x, y_l_ax, a, y, k) ==
    IF k > Len(m_search) THEN Ret(FALSE, st)
    ELSE IF is_scanned(k) /\ is_g_v(x, from_ule(m_search[k].lit))
    THEN OrElse(try_y_l_ax_and_x_l_z_entry(st, x, y_l_ax, from_ule(m_search[k].lit), a, y),
                LAMBDA s : scan_y_l_ax_and_x_l_z(s, x, y_l_ax, a, y, k + 1))
    ELSE scan_y_l_ax_and_x_l_z(st, x, y_l_ax, a, y, k + 1)

try_y_l_ax_and_x_l_z(st, x, y_l_ax) ==
    LET st1 == set_rule(st, tag_y_l_ax_and_x_l_z, "try_y_l_ax_and_x_l_z")
        y == y_l_ax.lhs
        a == xY_y(x, y_l_ax.rhs)
    IN IF ~is_Y_l_Ax(x, y_l_ax) THEN Ret(FALSE, st1)
       ELSE IF is_one(a) THEN Ret(FALSE, st1)
       ELSE scan_y_l_ax_and_x_l_z(st1, x, y_l_ax, a, y, 1)

\* -------------------------------------------------------------- mul_bounds
\* [x] a*x + b = 0 & b = 0 => a = 0 or x = 0 or ovfl(a, x), for the four sign
\* combinations, and with a trail literal u <= k the bound Y >= ceil(2^K / k).
\* m = [crit, a, b, y, X, x_eq_0, a_eq_0]: what the rule matched.
mul_bounds_prop1(st, m, c) ==
    LET st1 == insert_eval(reset(st), neg(eq(m.b)))
        st2 == insert_eval(st1, neg(eq(m.y)))
        st3 == insert_eval(st2, m.x_eq_0)
        st4 == insert_eval(st3, m.a_eq_0)
    IN propagate(st4, m.crit, c)

mul_bounds_prop2(st, m, ante, c) ==
    LET st1 == insert_eval(reset(st), neg(eq(m.b)))
        st2 == insert_eval(st1, neg(eq(m.y)))
        st3 == insert_eval(st2, m.x_eq_0)
        st4 == insert_eval(st3, m.a_eq_0)
        st5 == insert_eval(st4, neg(ante))
    IN propagate(st5, m.crit, c)

\* the bound rounded down instead of up
mul_bounds_bound_floor(k_val) == two_to_N \div k_val

\* ceil(2^K / k_val)
mul_bounds_bound(k_val) == (two_to_N + k_val - 1) \div k_val

\* k_val of the trail inequality u_l_k, its right-hand side being a value
mul_bounds_k_val(u_l_k) == IF u_l_k.is_strict THEN val(u_l_k.rhs) - 1 ELSE val(u_l_k.rhs)

RECURSIVE scan_mul_bounds(_, _, _)
scan_mul_bounds(st, m, k) ==
    IF k > Len(m_search) THEN Ret(FALSE, st)
    ELSE IF ~is_scanned(k) THEN scan_mul_bounds(st, m, k + 1)
    ELSE
      LET d == m_search[k].lit
          u_l_k == from_ule(d)
          k_val == mul_bounds_k_val(u_l_k)
          for_X == u_l_k.lhs = m.a \/ u_l_k.lhs = Neg(m.a)
          for_a == u_l_k.lhs = m.X \/ u_l_k.lhs = Neg(m.X)
          Y == IF for_X THEN m.X ELSE m.a
          bound == mul_bounds_bound(k_val)
      IN IF ~is_val(u_l_k.rhs) THEN scan_mul_bounds(st, m, k + 1)
         ELSE IF k_val <= 1 THEN scan_mul_bounds(st, m, k + 1)
         ELSE IF ~for_X /\ ~for_a THEN scan_mul_bounds(st, m, k + 1)
         ELSE OrElse(mul_bounds_prop2(st, m, d, uge(Y, bound)),
                LAMBDA s1 : OrElse(mul_bounds_prop2(s1, m, d, uge(Neg(Y), bound)),
                LAMBDA s2 : scan_mul_bounds(s2, m, k + 1)))

try_mul_bounds(st, x, axb_l_y) ==
    LET st1 == set_rule(st, tag_mul_bounds,
                        "try_mul_bounds")
        X == var(x)
        a == factor_lc(axb_l_y.lhs, x)
        b == factor_rest(axb_l_y.lhs, x)
        y == axb_l_y.rhs
        m == [crit |-> axb_l_y, a |-> a, b |-> b, y |-> y, X |-> X,
              x_eq_0 |-> is_forced_diseq_c(X, 0), a_eq_0 |-> is_forced_diseq_c(a, 0)]
    IN IF ~is_AxB_eq_0(x, axb_l_y) THEN Ret(FALSE, st1)
       ELSE IF is_val(a) THEN Ret(FALSE, st1)
       ELSE IF ~is_forced_eq(b, 0) THEN Ret(FALSE, st1)
       ELSE IF ~is_forced_diseq(X, 0) THEN Ret(FALSE, st1)
       ELSE IF ~is_forced_diseq(a, 0) THEN Ret(FALSE, st1)
       ELSE OrElse(scan_mul_bounds(st1, m, 1),
              LAMBDA s0 : OrElse(mul_bounds_prop1(s0, m, umul_ovfl(a, X)),
              LAMBDA s1 : OrElse(mul_bounds_prop1(s1, m, umul_ovfl(a, Neg(X))),
              LAMBDA s2 : OrElse(mul_bounds_prop1(s2, m, umul_ovfl(Neg(a), X)),
              LAMBDA s3 : mul_bounds_prop1(s3, m, umul_ovfl(Neg(a), Neg(X)))))))

\* ---------------------------------------------------------------- mul_eq_1
\* x*y = 1 & ~ovfl(x,y) => x = 1
try_mul_eq_1(st, x, axb_l_y) ==
    LET st1 == set_rule(st, tag_mul_eq_1,
                        "try_mul_eq_1")
        X == var(x)
        a == factor_lc(axb_l_y.lhs, x)
        b == factor_rest(axb_l_y.lhs, x)
        y == axb_l_y.rhs
    IN IF ~is_AxB_eq_0(x, axb_l_y) THEN Ret(FALSE, st1)
       ELSE IF ~is_forced_eq(b, -1) THEN Ret(FALSE, st1)
       ELSE IF ~is_non_overflow(a, X) THEN Ret(FALSE, st1)
       ELSE LET st2 == insert_eval(reset(st1), neg(eq_k(b, -1)))
                st3 == insert_eval(st2, neg(eq(y)))
                st4 == insert_eval(st3, neg(non_overflow_c(a, X)))
            IN OrElse(propagate(st4, axb_l_y, eq_k(X, 1)),
                      LAMBDA s : propagate(s, axb_l_y, eq_k(a, 1)))

\* ----------------------------------------------------------------- mul_odd
\* a*x = 0 => a = 0 or even(x)
\* a*x = 0 => a = 0 or x = 0 or even(a)
try_mul_odd(st, x, axb_l_y) ==
    LET st1 == set_rule(st, tag_mul_odd, "try_mul_odd")
        X == var(x)
        a == factor_lc(axb_l_y.lhs, x)
        b == factor_rest(axb_l_y.lhs, x)
        y == axb_l_y.rhs
        a_eq_0 == is_forced_diseq_c(a, 0)
        x_eq_0 == is_forced_diseq_c(X, 0)
    IN IF ~is_AxB_eq_0(x, axb_l_y) THEN Ret(FALSE, st1)
       ELSE IF ~is_forced_eq(b, 0) THEN Ret(FALSE, st1)
       ELSE IF ~is_forced_diseq(a, 0) THEN Ret(FALSE, st1)
       ELSE LET st2 == insert_eval(reset(st1), eq(y))
                st3 == insert_eval(st2, neg(eq(b)))
                st4 == insert_eval(st3, a_eq_0)
            IN OrElse(propagate(st4, axb_l_y, even(X)),
                      LAMBDA s : IF ~is_forced_diseq(X, 0) THEN Ret(FALSE, s)
                                 ELSE propagate(insert_eval(s, x_eq_0), axb_l_y, even(a)))

\* --------------------------------------------------------- factor_equality
try_factor_equality(st, x, a_l_b) == Ret(FALSE, [st EXCEPT !.tried = Append(@, "try_factor_equality")])

\* ------------------------------------------------------------------ parity
\* a*x + b = 0 => min(K, parity(a) + parity(x)) = parity(b), in special cases
\* propagate1 without the reset of the builder
parity_propagate1_without_reset(st, y, crit, premise, conseq) ==
    LET st1 == insert_eval(st, neg(eq(y)))
        st2 == insert_eval(st1, neg(premise))
    IN propagate(st2, crit, conseq)

parity_propagate1(st, y, crit, premise, conseq) ==
    LET st1 == insert_eval(reset(st), neg(eq(y)))
        st2 == insert_eval(st1, neg(premise))
    IN propagate(st2, crit, conseq)

\* propagate2 without its second premise
parity_propagate2_one_premise(st, y, crit, premise1, premise2, conseq) ==
    parity_propagate1(st, y, crit, premise1, conseq)

parity_propagate2(st, y, crit, premise1, premise2, conseq) ==
    LET st1 == insert_eval(reset(st), neg(eq(y)))
        st2 == insert_eval(st1, neg(premise1))
        st3 == insert_eval(st2, neg(premise2))
    IN propagate(st3, crit, conseq)

\* while (k < N && parity(p, k+1) is currently true) ++k
RECURSIVE parity_up(_, _)
parity_up(p, k) ==
    IF k < K /\ is_currently_true(parity(p, k + 1)) THEN parity_up(p, k + 1) ELSE k

\* for (b_parity = 1; b_parity < N; ++b_parity) if (parity(b, b_parity) is currently false) break
RECURSIVE parity_b_loop(_, _)
parity_b_loop(b, k) ==
    IF k < K /\ ~is_currently_false(parity(b, k)) THEN parity_b_loop(b, k + 1) ELSE k

\* b_parity - i is computed, for the argument of a propagate2 of the loop
parity_sub(st, b_parity, i) == [st EXCEPT !.subs = Append(@, <<b_parity, i>>)]

\* the loop going on to the next test after a propagate2 that has added its lemma
RECURSIVE parity_i_loop_without_return(_, _, _, _, _, _, _, _)
parity_i_loop_without_return(st, y, crit, a, X, b, b_parity, i) ==
    IF i >= K THEN Ret(FALSE, st)
    ELSE
      LET r1 == IF is_currently_true(parity(a, i))
                THEN parity_propagate2(parity_sub(st, b_parity, i), y, crit,
                                       neg(parity(b, b_parity)), parity(a, i),
                                       neg(parity(X, b_parity - i)))
                ELSE Ret(FALSE, st)
          r2 == IF is_currently_true(parity(X, i))
                THEN parity_propagate2(parity_sub(r1.st, b_parity, i), y, crit,
                                       neg(parity(b, b_parity)), parity(X, i),
                                       neg(parity(a, b_parity - i)))
                ELSE Ret(FALSE, r1.st)
          r3 == parity_i_loop_without_return(r2.st, y, crit, a, X, b, b_parity, i + 1)
      IN Ret(r1.ret \/ r2.ret \/ r3.ret, r3.st)

\* for (i = 1; i < N; ++i), the subtraction b_parity - i made in unsigned
RECURSIVE parity_i_loop(_, _, _, _, _, _, _, _)
parity_i_loop(st, y, crit, a, X, b, b_parity, i) ==
    IF i >= K THEN Ret(FALSE, st)
    ELSE
      LET r1 == IF is_currently_true(parity(a, i))
                THEN parity_propagate2(parity_sub(st, b_parity, i), y, crit,
                                       neg(parity(b, b_parity)), parity(a, i),
                                       neg(parity(X, b_parity - i)))
                ELSE Ret(FALSE, st)
      IN OrElse(r1, LAMBDA s1 :
           OrElse(IF is_currently_true(parity(X, i))
                  THEN parity_propagate2(parity_sub(s1, b_parity, i), y, crit,
                                         neg(parity(b, b_parity)), parity(X, i),
                                         neg(parity(a, b_parity - i)))
                  ELSE Ret(FALSE, s1),
                  LAMBDA s2 : parity_i_loop(s2, y, crit, a, X, b, b_parity, i + 1)))

try_parity(st, x, axb_l_y) ==
    LET st1 == set_rule(st, tag_parity, "try_parity")
        X == var(x)
        a == factor_lc(axb_l_y.lhs, x)
        b == factor_rest(axb_l_y.lhs, x)
        y == axb_l_y.rhs
        b_is_odd == odd(b)
        a_is_odd == odd(a)
        x_is_odd == odd(X)
        a_parity0 == IF is_currently_false(a_is_odd) THEN 1 ELSE 0
        x_parity0 == IF is_currently_false(x_is_odd) THEN 1 ELSE 0
        \* the branches after the two odd cases, on the state s they left
        rest(s) ==
          IF (a_parity0 > 0 \/ x_parity0 > 0) /\ ~is_forced_eq(a, 0) /\ ~is_forced_eq(X, 0)
          THEN
            LET a_parity == parity_up(a, a_parity0)
                x_parity == parity_up(X, x_parity0)
                b_parity == IF a_parity + x_parity < K THEN a_parity + x_parity ELSE K
            IN OrElse(IF a_parity > 0 /\ x_parity > 0
                      THEN parity_propagate2(s, y, axb_l_y, parity(a, a_parity),
                                             parity(X, x_parity), parity(b, b_parity))
                      ELSE Ret(FALSE, s), LAMBDA s1 :
               OrElse(IF a_parity > 0 /\ x_parity = 0
                      THEN parity_propagate1(s1, y, axb_l_y, parity(a, a_parity), parity(b, b_parity))
                      ELSE Ret(FALSE, s1), LAMBDA s2 :
                      IF a_parity = 0 /\ x_parity > 0
                      THEN parity_propagate1(s2, y, axb_l_y, parity(X, x_parity), parity(b, b_parity))
                      ELSE Ret(FALSE, s2)))
          ELSE IF ~is_forced_eq(b, 0)
          THEN
            LET b_parity == parity_b_loop(b, 1)
                found == b_parity < K
            IN IF ~found THEN Ret(FALSE, s)
               ELSE OrElse(parity_propagate1(s, y, axb_l_y, neg(parity(b, b_parity)),
                                             neg(parity(a, b_parity))), LAMBDA s1 :
                    OrElse(parity_propagate1(s1, y, axb_l_y, neg(parity(b, b_parity)),
                                             neg(parity(a, b_parity))), LAMBDA s2 :
                           parity_i_loop(s2, y, axb_l_y, a, X, b, b_parity, 1)))
          ELSE Ret(FALSE, s)
    IN IF ~is_AxB_eq_0(x, axb_l_y) THEN Ret(FALSE, st1)
       ELSE IF is_max(a) /\ is_var(b) THEN Ret(FALSE, st1)
       ELSE IF is_one(a) /\ is_var(Neg(b)) THEN Ret(FALSE, st1)
       ELSE OrElse(IF is_currently_true(a_is_odd) /\ is_currently_true(x_is_odd)
                   THEN parity_propagate2(st1, y, axb_l_y, a_is_odd, x_is_odd, b_is_odd)
                   ELSE Ret(FALSE, st1), LAMBDA s1 :
            OrElse(IF is_currently_true(b_is_odd)
                   THEN OrElse(parity_propagate1(s1, y, axb_l_y, b_is_odd, a_is_odd),
                               LAMBDA s : parity_propagate1(s, y, axb_l_y, b_is_odd, x_is_odd))
                   ELSE Ret(FALSE, s1), LAMBDA s2 : rest(s2)))

\* ----------------------------------------------------------------- tangent
\* [x] p(x) <= q(x) where value(p) > value(q)  ==> q <= value(q) => p <= value(q)
\*     p(x) < q(x) where value(p) >= value(q)  ==> value(p) <= p => value(p) < q
\* no inequality counts as linear
try_tangent_is_linear_never(v, c) == FALSE

try_tangent_is_linear(v, c) ==
    /\ degree(c.lhs, v) <= 1
    /\ degree(c.rhs, v) <= 1
    /\ (degree(c.lhs, v) = 1 => is_val(factor_lc(c.lhs, v)))
    /\ (degree(c.rhs, v) = 1 => is_val(factor_lc(c.rhs, v)))

try_tangent(st, v, c) ==
    LET st1 == set_rule(st, tag_tangent, "try_tangent")
        l_val == try_eval_val(c.lhs)
        r_val == try_eval_val(c.rhs)
        st2 == reset(st1)
    IN IF v \notin cnstr_vars(as_signed_constraint(c)) THEN Ret(FALSE, st1)
       ELSE IF is_val(c.lhs) \/ is_val(c.rhs) THEN Ret(FALSE, st1)
       ELSE IF try_tangent_is_linear(v, c) THEN Ret(FALSE, st1)
       ELSE IF ~is_currently_false(as_signed_constraint(c)) THEN Ret(FALSE, st1)
       ELSE IF ~try_eval_ok(c.lhs) THEN Ret(FALSE, st1)
       ELSE IF ~try_eval_ok(c.rhs) THEN Ret(FALSE, st1)
       ELSE IF c.is_strict
       THEN LET d == ule(Const(l_val), c.lhs)
            IN IF bvalue(d) = l_false THEN Ret(FALSE, st2)
               ELSE add_conflict(insert_eval(st2, neg(d)), c, ult(Const(r_val), c.rhs))
       ELSE LET d == ule(c.rhs, Const(r_val))
            IN IF bvalue(d) = l_false THEN Ret(FALSE, st2)
               ELSE add_conflict(insert_eval(st2, neg(d)), c, ule(c.lhs, Const(r_val)))

\* ----------------------------------------------------------------- perform
\* perform(v, c, core) with try_parity moved before try_mul_bounds
perform_c_parity_first(st, v, c) ==
    IF ~is_ule(c) THEN Ret(FALSE, st)
    ELSE IF is_currently_true(c) THEN Ret(FALSE, st)
    ELSE LET i == from_ule(c)
             st0 == [st EXCEPT !.tried = Append(@, "from_ule")]
         IN OrElse(try_parity(st0, v, i), LAMBDA s1 :
            OrElse(try_mul_bounds(s1, v, i), LAMBDA s2 :
            OrElse(try_factor_equality(s2, v, i), LAMBDA s3 :
            OrElse(try_ugt_x(s3, v, i), LAMBDA s4 :
            OrElse(try_ugt_y(s4, v, i), LAMBDA s5 :
            OrElse(try_ugt_z(s5, v, i), LAMBDA s6 :
            OrElse(try_y_l_ax_and_x_l_z(s6, v, i), LAMBDA s7 :
                   try_tangent(s7, v, i))))))))

\* perform(v, c, core) that hands a constraint that is currently true to the rules
perform_c_without_skip(st, v, c) ==
    IF ~is_ule(c) THEN Ret(FALSE, st)
    ELSE LET i == from_ule(c)
             st0 == [st EXCEPT !.tried = Append(@, "from_ule")]
         IN OrElse(try_mul_bounds(st0, v, i), LAMBDA s1 :
            OrElse(try_parity(s1, v, i), LAMBDA s2 :
            OrElse(try_factor_equality(s2, v, i), LAMBDA s3 :
            OrElse(try_ugt_x(s3, v, i), LAMBDA s4 :
            OrElse(try_ugt_y(s4, v, i), LAMBDA s5 :
            OrElse(try_ugt_z(s5, v, i), LAMBDA s6 :
            OrElse(try_y_l_ax_and_x_l_z(s6, v, i), LAMBDA s7 :
                   try_tangent(s7, v, i))))))))

\* perform(v, c, core): the rules in their order, on one constraint of the core
perform_c(st, v, c) ==
    IF ~is_ule(c) THEN Ret(FALSE, st)
    ELSE IF is_currently_true(c) THEN Ret(FALSE, st)
    ELSE LET i == from_ule(c)
             st0 == [st EXCEPT !.tried = Append(@, "from_ule")]
         IN OrElse(try_mul_bounds(st0, v, i), LAMBDA s1 :
            OrElse(try_parity(s1, v, i), LAMBDA s2 :
            OrElse(try_factor_equality(s2, v, i), LAMBDA s3 :
            OrElse(try_ugt_x(s3, v, i), LAMBDA s4 :
            OrElse(try_ugt_y(s4, v, i), LAMBDA s5 :
            OrElse(try_ugt_z(s5, v, i), LAMBDA s6 :
            OrElse(try_y_l_ax_and_x_l_z(s6, v, i), LAMBDA s7 :
                   try_tangent(s7, v, i))))))))

\* perform(v, core) that goes on to the next constraint after one has fired
RECURSIVE perform_from_every(_, _, _)
perform_from_every(st, v, k) ==
    IF k > Len(core) THEN Ret(FALSE, st)
    ELSE LET r == perform_c(st, v, core[k])
             r2 == perform_from_every(r.st, v, k + 1)
         IN Ret(r.ret \/ r2.ret, r2.st)

\* perform(v, core): the constraints of the core in order, until one fires
RECURSIVE perform_from(_, _, _)
perform_from(st, v, k) ==
    IF k > Len(core) THEN Ret(FALSE, st)
    ELSE OrElse(perform_c(st, v, core[k]), LAMBDA s : perform_from(s, v, k + 1))

perform(st, v) == perform_from(st, v, 1)

\* --------------------------------------------------------------- scenarios
\* A scenario is what the solver hands to saturation: the variable v under
\* resolution, the conflict core, and the boolean literals of the trail beside
\* the core's own (each with its resolved flag).
X1 == var(1)
X2 == var(2)
X3 == var(3)
OtherVars == Vars \ {1, 2}

Lit(c, r) == [lit |-> c, res |-> r]
Scen(v, c, t) == [v |-> v, core |-> c, trail |-> t]

BoolEntry(l) == [is_boolean |-> TRUE, is_resolved |-> l.res, lit |-> l.lit, var |-> 0]
VarEntry(i) == [is_boolean |-> FALSE, is_resolved |-> FALSE, lit |-> eq(zero), var |-> i]

\* optional trail literals: none, or one of S unresolved, or the first of S resolved
Opt(S) == {<<>>} \cup {<<Lit(c, FALSE)>> : c \in S}
OptRes(S) == Opt(S) \cup {<<Lit(c, TRUE)>> : c \in S}

\* y*x <= z*x and y <= a*x, with the second premise and the non-overflow literal
ScenUgt ==
    LET c1(s) == ineq(s, Mul(X1, X2), Mul(X3, X2))
        c2(s) == ineq(s, X1, Mul(X3, X2))
        nov(p, q) == neg(umul_ovfl(p, q))
    IN  {Scen(2, <<c1(s)>>, o) : s \in BOOLEAN, o \in OptRes({nov(X2, X1)})}
   \cup {Scen(2, <<c1(s)>>, <<Lit(neg(ineq(s, X1, X3)), FALSE)>> \o o) :
            s \in BOOLEAN, o \in Opt({nov(X2, X1)})}
   \cup {Scen(1, <<c1(s)>>, p \o o) :
            s \in BOOLEAN,
            p \in OptRes({ineq(s2, Const(1), X1) : s2 \in BOOLEAN})
                  \cup Opt({ineq(s2, var(i), X1) : s2 \in BOOLEAN, i \in OtherVars}),
            o \in Opt({nov(X2, X1)})}
   \cup {Scen(3, <<c1(s)>>, p \o o) :
            s \in BOOLEAN,
            p \in Opt({ineq(s2, X3, X1) : s2 \in BOOLEAN})
                  \cup Opt({ineq(s2, X3, Const(2)) : s2 \in BOOLEAN})
                  \cup Opt({ule(X3, X2)}),
            o \in Opt({nov(X1, X2)})}
   \cup {Scen(1, <<c1(FALSE)>>, <<Lit(d, r), Lit(ule(Const(1), X1), FALSE)>>) :
            d \in {ule(X3, X1), ult(X3, X1), ule(Const(2), X1)}, r \in BOOLEAN}
   \cup {Scen(2, <<c2(s)>>, p \o o) :
            s \in BOOLEAN,
            p \in Opt({ineq(s2, X2, X1) : s2 \in BOOLEAN})
                  \cup Opt({ineq(s2, X2, Const(2)) : s2 \in BOOLEAN}),
            o \in Opt({nov(X3, X1)})}

\* a*x + b <= y with a = X2, x = X1, and the trail literal u <= k
ScenMul ==
    LET ax == Mul(X2, X1)
        cores == {ule(ax, zero), ule(Add(ax, X3), zero), ule(ax, X3)}
        us == {X2, Neg(X2), X1, Neg(X1)}
        bnd == {ule(u, Const(k)) : u \in us, k \in {2, 3}} \cup {ult(u, Const(3)) : u \in us}
               \cup {ult(X2, Const(2)), ule(X1, Const(1)), ule(X3, Const(2))}
    IN  {Scen(1, <<c>>, p) : c \in cores, p \in Opt(bnd)}
   \cup {Scen(1, <<ule(ax, zero)>>, p \o d) :
            p \in {<<>>, <<Lit(ule(X2, Const(3)), TRUE)>>}, d \in Opt({neg(eq(X2))})}
   \cup {Scen(1, <<ule(ax, zero)>>, <<Lit(ule(X2, Const(3)), r), Lit(ule(X1, Const(2)), FALSE)>>) :
            r \in BOOLEAN}
   \cup {Scen(1, <<ule(Add(ax, Const(-1)), zero)>>, o) : o \in Opt({neg(umul_ovfl(X2, X1))})}

\* a*x + b <= y with val(y) = 0, for the parities of a, x and b
ScenParity ==
    LET as == {X2, Const(2), Const(3)}
        bs == {X3, Const(1), Const(2)}
        lits == {odd(X2), odd(X1), odd(X3), even(X3)}
    IN  {Scen(1, <<ineq(s, Add(Mul(a, X1), b), zero)>>, t) :
            s \in {FALSE}, a \in as, b \in bs, t \in Opt(lits)}
   \cup {Scen(1, <<ineq(TRUE, Add(Mul(X2, X1), X3), zero)>>, <<>>)}

\* p(v) <= q(v), non-linear in v on a side or not
ScenTangent ==
    LET sq == Mul(X1, X1)
        cores == {<<sq, X2>>, <<X2, sq>>, <<Mul(X1, X2), Add(X2, Const(1))>>,
                  <<Add(X1, X2), X2>>, <<sq, Const(1)>>, <<X2, Add(X2, Const(1))>>}
        lits == {ule(X2, Const(1)), neg(ule(X2, Const(1))), ule(sq, Const(1)),
                 neg(ule(Const(1), sq))}
    IN  {Scen(1, <<ineq(s, pq[1], pq[2])>>, t) : s \in BOOLEAN, pq \in cores, t \in Opt(lits)}

\* a conflict of two constraints: the first is skipped or fires, then the second
ScenTwo ==
    {Scen(1, <<c1, c2>>, <<>>) :
        c1 \in {umul_ovfl(X1, X2), ule(X2, X3), ule(Mul(X1, X1), X2)},
        c2 \in {ule(Mul(X1, X1), X2), ule(Add(Mul(X2, X1), X3), zero)}}

\* inequalities of the shapes the matchers recognise, the shared factor with a
\* coefficient or without, and some they refuse
ScenMatch ==
    LET three == Const(3)
        ps == {Mul(three, Mul(X1, X2)), Mul(X1, X2), Add(Mul(X1, X2), X3), Add(Mul(X1, X2), one)}
        qs == {Mul(three, Mul(X3, X2)), Mul(Mul(three, X1), X3), Mul(X1, X1), X3}
    IN {Scen(v, <<ule(p, q)>>, <<>>) : v \in {1, 3}, p \in ps, q \in qs}

ScenAll == ScenUgt \cup ScenMul \cup ScenParity \cup ScenTangent \cup ScenTwo

scen_vars(sc) ==
    UNION {cnstr_vars(sc.core[k]) : k \in 1..Len(sc.core)}
    \cup UNION {cnstr_vars(sc.trail[k].lit) : k \in 1..Len(sc.trail)}

\* the assigned variables of a, in order, as trail entries
RECURSIVE var_entries(_, _)
var_entries(a, i) ==
    IF i > NumVars THEN <<>>
    ELSE (IF a[i] # Unassigned THEN <<VarEntry(i)>> ELSE <<>>) \o var_entries(a, i + 1)

\* no literal is on the trail twice or with both polarities
trail_consistent(t) ==
    \A j, k \in 1..Len(t) : j # k => ~same_atom(t[j].lit, t[k].lit)

\* ------------------------------------------------------ slice/e-graph adapter
ThVars == 1..NumThVars
\* euf::null_theory_var: the e-node has no variable of this theory
null_theory_var == 0

\* the loop over the class of a visited e-node, from its i-th sibling on, that
\* does not look at the set seen
RECURSIVE visit_class_without_seen(_, _, _, _)
visit_class_without_seen(acc, cls, offset, i) ==
    IF i > Len(cls) THEN acc
    ELSE LET w == cls[i]
             p == m_var2pdd[w]
         IN IF w = null_theory_var THEN visit_class_without_seen(acc, cls, offset, i + 1)
            ELSE IF ~is_var(p) THEN visit_class_without_seen(acc, cls, offset, i + 1)
            ELSE visit_class_without_seen(
                     [acc EXCEPT !.out = Append(@, [var |-> unary_var(p), offset |-> offset, w |-> w])],
                     cls, offset, i + 1)

\* for (auto sib : euf::enode_class(n)): the siblings i.. of the class cls; an
\* entry of out also keeps the theory variable w it was pushed for
RECURSIVE visit_class(_, _, _, _)
visit_class(acc, cls, offset, i) ==
    IF i > Len(cls) THEN acc
    ELSE LET w == cls[i]
             p == m_var2pdd[w]
             acc1 == [acc EXCEPT !.seen = @ \cup {w}]
         IN IF w = null_theory_var THEN visit_class(acc, cls, offset, i + 1)
            ELSE IF w \in acc.seen THEN visit_class(acc, cls, offset, i + 1)
            ELSE IF ~is_var(p) THEN visit_class(acc1, cls, offset, i + 1)
            ELSE visit_class([acc1 EXCEPT !.out = Append(@, [var |-> unary_var(p), offset |-> offset, w |-> w])],
                             cls, offset, i + 1)

\* consume_slice of get_bitvector_suffixes, of get_bitvector_sub_slices and of
\* get_bitvector_super_slices: the visitor's result and what it has collected
consume_suffix(acc, n, offset) ==
    IF offset # 0 THEN Ret(FALSE, acc) ELSE Ret(TRUE, visit_class(acc, n, offset, 1))
consume_sub_slice(acc, n, offset) == Ret(TRUE, visit_class(acc, n, offset, 1))
consume_super_slice(acc, n, offset) == Ret(TRUE, visit_class(acc, n, offset, 1))

\* consume_slice of get_fixed_bits, on an e-node n given by what the visitor
\* reads of it: interpreted, the theory variable of its root, the bit width
\* and the numeral of its expression
fixed_slice(lo, hi, value) == [lo |-> lo, hi |-> hi, value |-> value]

consume_fixed(acc, n, offset) ==
    IF ~n.interpreted THEN Ret(TRUE, acc)
    ELSE LET w == n.th_var
         IN IF w = null_theory_var THEN Ret(TRUE, acc)
            ELSE IF ~is_var(m_var2pdd[w]) THEN Ret(TRUE, acc)
            ELSE LET lo == offset
                     hi == n.bv_size
                 IN Ret(FALSE, [acc EXCEPT !.out = Append(@, fixed_slice(lo, hi, n.value))])

consume_slice(query, acc, n, offset) ==
    IF query = "get_fixed_bits" THEN consume_fixed(acc, n, offset)
    ELSE IF query = "get_bitvector_suffixes" THEN consume_suffix(acc, n, offset)
    ELSE IF query = "get_bitvector_sub_slices" THEN consume_sub_slice(acc, n, offset)
    ELSE consume_super_slice(acc, n, offset)

\* sub_slices / super_slices(enode, visitor): the visitor is invoked per slice
\* with (enode, offset); returning false stops the traversal
RECURSIVE slices(_, _, _)
slices(query, acc, k) ==
    IF k > Len(bv_walk) THEN acc
    ELSE LET r == consume_slice(query, acc, bv_walk[k].n, bv_walk[k].offset)
         IN IF r.ret THEN slices(query, r.st, k + 1) ELSE r.st

\* a slice query: uint_set seen is empty, out is the caller's vector
get_bitvector_slices(query) == slices(query, [seen |-> {}, out |-> out], 1).out

\* the classes of e-nodes a walk can visit: their theory variables, sibling by sibling
EnodeClasses == {<<1>>, <<2>>, <<null_theory_var, 1>>, <<1, 2>>, <<2, 1>>}
Visits == [n : EnodeClasses, offset : 0..MaxOffset]
RECURSIVE Walks(_)
Walks(k) == IF k = 0 THEN {<<>>} ELSE LET W == Walks(k - 1) IN W \cup {Append(w, v) : w \in W, v \in Visits}

\* the e-nodes a walk for fixed bits can visit: numerals of one or two bits and
\* nodes that are not interpreted, with the theory variable of their root
FixedNodes ==
    {[interpreted |-> FALSE, th_var |-> w, bv_size |-> 1, value |-> 0] : w \in {null_theory_var, 1}}
    \cup {[interpreted |-> TRUE, th_var |-> w, bv_size |-> sz, value |-> v] :
              w \in {null_theory_var} \cup ThVars, sz \in 1..(K - 1), v \in 0..1}
FixedVisits == [n : FixedNodes, offset : 0..MaxOffset]
RECURSIVE FixedWalks(_)
FixedWalks(k) ==
    IF k = 0 THEN {<<>>}
    ELSE LET W == FixedWalks(k - 1) IN W \cup {Append(w, v) : w \in W, v \in FixedVisits}

\* bv.mk_numeral(value, width): the numeral of that bit width, its value reduced;
\* a width that is 0 or has wrapped is kept as it was computed
mk_numeral(value, width) ==
    [value |-> IF width >= 1 THEN value % Pow(2, width) ELSE value, size |-> width]
\* explain_fixed has not been called
no_val == [value |-> 0, size |-> 0]

\* no slice query is made: the adapter's state beside the saturation core
InitNoSlices ==
    /\ m_var2pdd = [w \in ThVars |-> var(1)]
    /\ bv_walk = <<>>
    /\ out = <<>>
    /\ bv_call = "none"
    /\ fixed_val = no_val

InitFrom(S) ==
    \E sc \in S :
    \E a \in [Vars -> {Unassigned} \cup Vals] :
       /\ InitNoSlices
       /\ \A i \in Vars \ scen_vars(sc) : a[i] = Unassigned
       /\ LET t == [k \in 1..Len(sc.core) |-> Lit(sc.core[k], FALSE)] \o sc.trail
          IN /\ trail_consistent(t)
             /\ m_search = var_entries(a, 1) \o [k \in 1..Len(t) |-> BoolEntry(t[k])]
       /\ assignment = a
       /\ core = sc.core
       /\ conflict_var = sc.v
       /\ core_lemmas = <<>>
       /\ m_lemma = <<>>
       /\ m_rule = ""
       /\ tried = <<>>
       /\ parity_subs = <<>>
       /\ last_call = [op |-> "none", ret |-> FALSE, added |-> 0]
       /\ ncalls = 0

Init == InitFrom(ScenAll)

\* ----------------------------------------------------------------- actions
engine == [m_lemma |-> m_lemma, m_rule |-> m_rule, lemmas |-> core_lemmas, tried |-> <<>>, subs |-> <<>>]

Return(op, r) ==
    /\ m_lemma' = r.st.m_lemma
    /\ m_rule' = r.st.m_rule
    /\ core_lemmas' = r.st.lemmas
    /\ tried' = r.st.tried
    /\ parity_subs' = r.st.subs
    /\ last_call' = [op |-> op, ret |-> r.ret, added |-> Len(r.st.lemmas) - Len(core_lemmas)]
    /\ ncalls' = ncalls + 1
    /\ UNCHANGED <<assignment, m_search, core, conflict_var, m_var2pdd, bv_walk, out, bv_call,
                   fixed_val>>

\* the solver calls perform(v, core)
Perform ==
    /\ ncalls < MaxCalls
    /\ Return("perform", perform(engine, conflict_var))

\* the inequalities a rule is called on: what perform hands to its rules
rule_input(k) == is_ule(core[k]) /\ ~is_currently_true(core[k])

\* a call of try_mul_eq_1(v, core, i) for a constraint of the core
MulEq1 ==
    /\ ncalls < MaxCalls
    /\ \E k \in 1..Len(core) :
          /\ rule_input(k)
          /\ Return("try_mul_eq_1", try_mul_eq_1(engine, conflict_var, from_ule(core[k])))

\* a call of try_mul_odd(v, core, i) for a constraint of the core
MulOdd ==
    /\ ncalls < MaxCalls
    /\ \E k \in 1..Len(core) :
          /\ rule_input(k)
          /\ Return("try_mul_odd", try_mul_odd(engine, conflict_var, from_ule(core[k])))

Next == Perform \/ MulEq1 \/ MulOdd

\* a slice query of the solver, on the walk the e-graph makes for pv
SliceQuery(query) ==
    /\ bv_call = "none"
    /\ bv_call' = query
    /\ out' = get_bitvector_slices(query)
    /\ UNCHANGED <<assignment, m_search, core, conflict_var, core_lemmas, m_lemma, m_rule,
                   tried, last_call, ncalls, m_var2pdd, bv_walk, parity_subs, fixed_val>>

GetBitvectorSuffixes == SliceQuery("get_bitvector_suffixes")
GetBitvectorSubSlices == SliceQuery("get_bitvector_sub_slices")
GetBitvectorSuperSlices == SliceQuery("get_bitvector_super_slices")

NextSlices == GetBitvectorSuffixes \/ GetBitvectorSubSlices \/ GetBitvectorSuperSlices

\* the saturation core idle, the adapter with any polynomials and any walk
InitSlices ==
    /\ assignment = [i \in Vars |-> Unassigned]
    /\ m_search = <<>>
    /\ core = <<>>
    /\ conflict_var = 1
    /\ core_lemmas = <<>>
    /\ m_lemma = <<>>
    /\ m_rule = ""
    /\ tried = <<>>
    /\ parity_subs = <<>>
    /\ last_call = [op |-> "none", ret |-> FALSE, added |-> 0]
    /\ ncalls = 0
    /\ m_var2pdd \in [ThVars -> {var(1), var(2), Add(var(1), one)}]
    /\ bv_walk \in Walks(MaxVisits)
    /\ out = <<>>
    /\ bv_call = "none"
    /\ fixed_val = no_val

SpecSlices == InitSlices /\ [][NextSlices]_vars

\* get_fixed_bits(pv, out), on the walk sub_slices makes for pv
GetFixedBits == SliceQuery("get_fixed_bits")

\* explain_fixed(pv, lo, hi, value, consume_eq) for a fixed slice get_fixed_bits
\* has put into out: the numeral val it looks up in the e-graph
ExplainFixed ==
    /\ bv_call = "get_fixed_bits"
    /\ \E j \in 1..Len(out) :
          LET lo == out[j].lo
              hi == out[j].hi
          IN fixed_val' = mk_numeral(out[j].value, hi - lo + 1)
    /\ bv_call' = "explain_fixed"
    /\ UNCHANGED <<assignment, m_search, core, conflict_var, core_lemmas, m_lemma, m_rule,
                   tried, last_call, ncalls, m_var2pdd, bv_walk, out, parity_subs>>

NextFixed == GetFixedBits \/ ExplainFixed

\* the saturation core idle, the adapter with any polynomials and any walk
\* over numerals and other e-nodes
InitFixed ==
    /\ assignment = [i \in Vars |-> Unassigned]
    /\ m_search = <<>>
    /\ core = <<>>
    /\ conflict_var = 1
    /\ core_lemmas = <<>>
    /\ m_lemma = <<>>
    /\ m_rule = ""
    /\ tried = <<>>
    /\ parity_subs = <<>>
    /\ last_call = [op |-> "none", ret |-> FALSE, added |-> 0]
    /\ ncalls = 0
    /\ m_var2pdd \in [ThVars -> {var(1), Add(var(1), one)}]
    /\ bv_walk \in FixedWalks(MaxVisits)
    /\ out = <<>>
    /\ bv_call = "none"
    /\ fixed_val = no_val

SpecFixed == InitFixed /\ [][NextFixed]_vars

Spec == Init /\ [][Next]_vars
SpecUgt == InitFrom(ScenUgt) /\ [][Next]_vars
SpecMul == InitFrom(ScenMul) /\ [][Next]_vars
SpecParity == InitFrom(ScenParity) /\ [][Next]_vars
SpecTangent == InitFrom(ScenTangent) /\ [][Next]_vars
SpecMatch == InitFrom(ScenMatch) /\ [][Next]_vars

\* -------------------------------------------------------------- properties
LemmasOf(tag) == {k \in 1..Len(core_lemmas) : core_lemmas[k].rule = tag}
lemma_vars(L) == UNION {cnstr_vars(L.lits[k].lit) : k \in 1..Len(L.lits)}

\* the clause of L is true under every assignment of its variables, modulo 2^K
ClauseValid(L) ==
    LET lv == lemma_vars(L)
        n == Len(L.lits)
    IN \A f \in [lv -> Vals] :
        LET a == [i \in Vars |-> IF i \in lv THEN f[i] ELSE 0]
        IN \E k \in 1..n : Holds(L.lits[k].lit, a)

\* C1: every clause emitted by try_ugt_y and by try_ugt_z is true for all values
\* of its polynomials modulo 2^K (the conclusion being strict as soon as one of
\* the two premises is strict).
C1_UgtYZ_Valid ==
    \A k \in LemmasOf(tag_ugt_y) \cup LemmasOf(tag_ugt_z) : ClauseValid(core_lemmas[k])

\* C2: every clause emitted by try_y_l_ax_and_x_l_z is true for all values of a,
\* x, y, z modulo 2^K (the conclusion being strict as soon as a premise is).
C2_Chain_Valid ==
    \A k \in LemmasOf(tag_y_l_ax_and_x_l_z) : ClauseValid(core_lemmas[k])

\* C3: every clause emitted by try_ugt_x is, for the matched y*x <= z*x of the
\* core, not(y*x <= z*x) or umul_ovfl(x,y) or (y <= z), strict as the matched
\* inequality is, with the literal x = 0 exactly when it is non-strict, and the
\* clause is true for all values of x, y, z modulo 2^K.
C3_UgtX_Valid ==
    \A k \in LemmasOf(tag_ugt_x) :
        LET L == core_lemmas[k]
            n == Len(L.lits)
            c == neg(L.lits[n - 1].lit)
            i == from_ule(c)
            x == var(conflict_var)
            y == factor_lc(i.lhs, conflict_var)
            z == factor_lc(i.rhs, conflict_var)
        IN /\ ClauseValid(L)
           /\ \E j \in 1..Len(core) : core[j] = c
           /\ i.lhs = Mul(y, x) /\ i.rhs = Mul(z, x)
           /\ L.lits[1].lit.pos /\ same_atom(L.lits[1].lit, umul_ovfl(x, y))
           /\ L.lits[n].lit = ineq(i.is_strict, y, z)
           /\ (i.is_strict => n = 3)
           /\ (~i.is_strict => n = 4 /\ L.lits[2].lit = eq(x))

\* a non-strict y*x <= z*x has fired try_ugt_x: the lemma holds x = 0
C3_Witness ==
    \E k \in LemmasOf(tag_ugt_x) :
        /\ Len(core_lemmas[k].lits) = 4
        /\ core_lemmas[k].lits[2].lit = eq(var(conflict_var))

\* C4: every clause emitted by try_mul_bounds is true for all values modulo 2^K
\* and has the premises not(a*x + b <= y), b # 0, y # 0, x = 0, a = 0 negated in
\* it; its conclusion is umul_ovfl(+-a, +-x), or, with the negation of a trail
\* literal u <= k (u < k counting as u <= k - 1) where u is +-a or +-x and the
\* effective k is at least 2, the bound +-Y >= ceil(2^K / k) on the other operand.
C4_MulBounds_Valid ==
    \A j \in LemmasOf(tag_mul_bounds) :
        LET L == core_lemmas[j]
            n == Len(L.lits)
            c == neg(L.lits[n - 1].lit)
            i == from_ule(c)
            X == var(conflict_var)
            a == factor_lc(i.lhs, conflict_var)
            b == factor_rest(i.lhs, conflict_var)
            y == i.rhs
            concl == L.lits[n].lit
        IN /\ ClauseValid(L)
           /\ L.mode = "propagate"
           /\ \E k \in 1..Len(core) : core[k] = c
           /\ i.lhs = Add(Mul(a, X), b)
           /\ L.lits[1].lit = neg(eq(b)) /\ L.lits[2].lit = neg(eq(y))
           /\ L.lits[3].lit = eq(X) /\ L.lits[4].lit = eq(a)
           /\ n \in {6, 7}
           /\ n = 6 => concl \in {umul_ovfl(p, q) : p \in {a, Neg(a)}, q \in {X, Neg(X)}}
           /\ n = 7 =>
                LET d == neg(L.lits[5].lit)
                    u_l_k == from_ule(d)
                    u == u_l_k.lhs
                    k_eff == IF u_l_k.is_strict THEN val(u_l_k.rhs) - 1 ELSE val(u_l_k.rhs)
                    ceil == CHOOSE q \in 0..two_to_N :
                                /\ q * k_eff >= two_to_N
                                /\ \A r \in 0..(q - 1) : r * k_eff < two_to_N
                    Y == IF u \in {a, Neg(a)} THEN X ELSE a
                IN /\ \E k \in 1..Len(m_search) : is_scanned(k) /\ m_search[k].lit = d
                   /\ is_val(u_l_k.rhs)
                   /\ k_eff >= 2
                   /\ u \in {a, Neg(a), X, Neg(X)}
                   /\ concl \in {ule(Const(ceil), Y), ule(Const(ceil), Neg(Y))}

\* a trail literal u <= 3 has produced the bound ceil(2^K / 3) on the other operand
C4_Witness ==
    \E j \in LemmasOf(tag_mul_bounds) :
        LET L == core_lemmas[j]
        IN /\ Len(L.lits) = 7
           /\ L.lits[5].lit.pos = FALSE
           /\ L.lits[5].lit.q = Const(3)

\* the rule has fired without a bound: the conclusion is an overflow literal
C4_OvflReached ==
    \E j \in LemmasOf(tag_mul_bounds) : Len(core_lemmas[j].lits) = 6

\* the shape of a try_parity lemma over a*x + b <= y: y # 0, the negated
\* premises, the negated critical inequality, the consequence
ParityParts(L) ==
    LET n == Len(L.lits)
        i == from_ule(neg(L.lits[n - 1].lit))
    IN [a |-> factor_lc(i.lhs, conflict_var),
        b |-> factor_rest(i.lhs, conflict_var),
        X |-> var(conflict_var),
        y |-> i.rhs,
        crit |-> neg(L.lits[n - 1].lit),
        premises |-> [k \in 1..(n - 3) |-> neg(L.lits[k + 1].lit)],
        conseq |-> L.lits[n].lit]

\* (i) odd(a), odd(x) => odd(b)
ParityOddAX(m) == m.premises = <<odd(m.a), odd(m.X)>> /\ m.conseq = odd(m.b)
\* (ii) odd(b) => odd(a), odd(b) => odd(x)
ParityOddB(m) == m.premises = <<odd(m.b)>> /\ m.conseq \in {odd(m.a), odd(m.X)}
\* (iii) parity(a, pa), parity(x, px) => parity(b, min(K, pa + px)), a zero one omitted
ParitySum(m) ==
    \E pa, px \in 0..K :
        LET pb == IF pa + px < K THEN pa + px ELSE K
        IN /\ pa + px > 0
           /\ m.conseq = parity(m.b, pb)
           /\ m.premises = (IF pa > 0 THEN <<parity(m.a, pa)>> ELSE <<>>)
                           \o (IF px > 0 THEN <<parity(m.X, px)>> ELSE <<>>)
\* (iv) not parity(b, pb) => not parity(a, pb), and with parity(a, i) =>
\* not parity(x, pb - i), symmetrically in a and x
ParityDown(m) ==
    \E pb \in 1..(K - 1) :
        \/ m.premises = <<neg(parity(m.b, pb))>> /\ m.conseq = neg(parity(m.a, pb))
        \/ \E i \in 1..(K - 1) :
              \/ /\ m.premises = <<neg(parity(m.b, pb)), parity(m.a, i)>>
                 /\ m.conseq = neg(parity(m.X, pb - i))
              \/ /\ m.premises = <<neg(parity(m.b, pb)), parity(m.X, i)>>
                 /\ m.conseq = neg(parity(m.a, pb - i))

\* C5: every clause emitted by try_parity is true for all values modulo 2^K; it
\* holds y # 0 and the negation of the critical a*x + b <= y of the core, and its
\* premises and consequence are one of the parity inferences (i) to (iv).
C5_Parity_Valid ==
    \A j \in LemmasOf(tag_parity) :
        LET L == core_lemmas[j]
            m == ParityParts(L)
        IN /\ ClauseValid(L)
           /\ L.mode = "propagate"
           /\ Len(L.lits) \in {4, 5}
           /\ \E k \in 1..Len(core) : core[k] = m.crit
           /\ L.lits[1].lit = neg(eq(m.y))
           /\ ParityOddAX(m) \/ ParityOddB(m) \/ ParitySum(m) \/ ParityDown(m)

\* try_parity has concluded parity(b, pa + px) from two parities that are not 0
C5_Witness ==
    \E j \in LemmasOf(tag_parity) :
        LET m == ParityParts(core_lemmas[j])
        IN m.crit.pos /\ Len(m.premises) = 2 /\ ParitySum(m) /\ ~is_zero(m.b)

C5_ReachOddAX == \E j \in LemmasOf(tag_parity) : ParityOddAX(ParityParts(core_lemmas[j]))
C5_ReachOddB == \E j \in LemmasOf(tag_parity) : ParityOddB(ParityParts(core_lemmas[j]))
C5_ReachDown1 ==
    \E j \in LemmasOf(tag_parity) :
        LET m == ParityParts(core_lemmas[j])
        IN ParityDown(m) /\ ~ParityOddB(m) /\ Len(m.premises) = 1
C5_ReachDown2 ==
    \E j \in LemmasOf(tag_parity) :
        LET m == ParityParts(core_lemmas[j])
        IN m.crit.pos /\ ParityDown(m) /\ Len(m.premises) = 2

C6_ReachStrict ==
    \E j \in LemmasOf(tag_tangent) :
        /\ Len(core_lemmas[j].lits) = 3
        /\ core_lemmas[j].lits[2].lit.pos

\* an engine state with nothing built and nothing logged
fresh == [m_lemma |-> <<>>, m_rule |-> "", lemmas |-> <<>>, tried |-> <<>>, subs |-> <<>>]

\* C7: a call of perform(v, core) adds at most one lemma, exactly when it
\* returns true, and nothing is attempted after the rule that added it: the
\* lemma carries the tag of the last rule attempted, and no more constraints
\* have been handed to the rules than the core holds. A rule called on its own
\* adds one lemma when it returns true and none otherwise.
C7_AtMostOneLemma ==
    last_call.op # "none" =>
        /\ last_call.added <= 1
        /\ last_call.ret <=> last_call.added = 1
        /\ Len(core_lemmas) = last_call.added
        /\ last_call.op = "perform" =>
             /\ Cardinality({k \in 1..Len(tried) : tried[k] = "from_ule"}) <= Len(core)
             /\ last_call.ret =>
                  /\ tried # <<>>
                  /\ tried[Len(tried)] \in DOMAIN RuleTag
                  /\ core_lemmas[Len(core_lemmas)].rule = RuleTag[tried[Len(tried)]]

\* perform has added its one lemma on the first constraint of a core whose
\* second constraint fires a rule as well
C7_Witness ==
    /\ last_call.op = "perform" /\ last_call.added = 1
    /\ Len(core) = 2
    /\ Cardinality({k \in 1..Len(tried) : tried[k] = "from_ule"}) = 1
    /\ \E k \in 1..Len(core_lemmas[1].lits) : core_lemmas[1].lits[k].lit = neg(core[1])
    /\ perform_c(fresh, conflict_var, core[2]).ret

\* perform has fired on the second constraint after the first fired no rule
C7_ReachSecond ==
    /\ last_call.op = "perform" /\ last_call.added = 1
    /\ Cardinality({k \in 1..Len(tried) : tried[k] = "from_ule"}) = 2

\* the order in which perform(v, c, core) attempts the rules
Order ==
    <<"try_mul_bounds", "try_parity", "try_factor_equality", "try_ugt_x", "try_ugt_y",
      "try_ugt_z", "try_y_l_ax_and_x_l_z", "try_tangent">>

\* the last index up to k at which an inequality was handed to the rules
BlockStart(k) == CHOOSE j \in 1..k : tried[j] = "from_ule" /\ \A h \in (j + 1)..k : tried[h] # "from_ule"

\* C8: for each inequality, perform attempts the rules in the order
\* try_mul_bounds, try_parity, try_factor_equality, try_ugt_x, try_ugt_y,
\* try_ugt_z, try_y_l_ax_and_x_l_z, try_tangent: the attempts for one inequality
\* are an initial part of that order, every inequality but the last has had all
\* eight attempted, the last one too when perform returns false, and when it
\* returns true the last attempt is the rule of the lemma, which is never
\* try_factor_equality; try_mul_eq_1 and try_mul_odd are not attempted.
C8_RuleOrder ==
    last_call.op = "perform" =>
        /\ tried # <<>> => tried[1] = "from_ule"
        /\ \A k \in 1..Len(tried) :
              LET s == BlockStart(k)
              IN /\ k - s <= Len(Order)
                 /\ k > s => tried[k] = Order[k - s]
                 /\ (k > 1 /\ k = s) => (k - 1) - BlockStart(k - 1) = Len(Order)
        /\ \A k \in 1..Len(tried) : tried[k] \notin {"try_mul_eq_1", "try_mul_odd"}
        /\ (~last_call.ret /\ tried # <<>>) =>
              Len(tried) - BlockStart(Len(tried)) = Len(Order)
        /\ last_call.ret =>
              /\ tried[Len(tried)] \in DOMAIN RuleTag
              /\ tried[Len(tried)] # "try_factor_equality"
              /\ core_lemmas[Len(core_lemmas)].rule = RuleTag[tried[Len(tried)]]

\* try_tangent has fired after the seven rules before it returned false
C8_Witness ==
    /\ last_call.op = "perform" /\ last_call.ret
    /\ tried = <<"from_ule">> \o Order
    /\ core_lemmas[1].rule = tag_tangent

\* C9: in every lemma finalised by propagate, each literal before the
\* propagated consequent (the side literals of the rule and the negated critical
\* inequality) is false at that moment. False is taken in the sense propagate
\* itself checks, false under the assignment or false on the trail, which the
\* claim's "semantically false" implies.
C9_PropagatePremisesFalse ==
    \A j \in 1..Len(core_lemmas) :
        LET L == core_lemmas[j]
        IN L.mode = "propagate" =>
              \A k \in 1..(Len(L.lits) - 1) : is_forced_false(L.lits[k].lit)

\* C10: every literal a lemma got through insert_eval is false when the lemma
\* is built: false under the assignment, or at least false on the trail.
C10_InsertEvalFalse ==
    \A j \in 1..Len(core_lemmas) :
        LET L == core_lemmas[j]
        IN \A k \in 1..Len(L.lits) : L.lits[k].eval => is_forced_false(L.lits[k].lit)

\* the literals of the trail and their negations: consequents to try add_conflict on
TrailLits ==
    LET S == {m_search[k].lit : k \in {j \in 1..Len(m_search) : m_search[j].is_boolean}}
    IN S \cup {neg(c) : c \in S}

\* C11: add_conflict finalises a lemma only for a consequent that is forced
\* false (false under the assignment or false on the trail, the test the code
\* and the spec's add_conflict make) and is not true on the trail: every
\* conflict lemma of the core ends in such a consequent, and add_conflict called
\* on an inequality of the core with any literal of the trail returns true and
\* adds one lemma when both conditions hold, and returns false and adds none
\* when one fails.
C11_AddConflictGuard ==
    /\ \A j \in 1..Len(core_lemmas) :
          LET L == core_lemmas[j]
              c == L.lits[Len(L.lits)].lit
          IN L.mode = "conflict" => is_forced_false(c) /\ bvalue(c) # l_true
    /\ \A k \in 1..Len(core) : \A c \in TrailLits :
          rule_input(k) =>
              LET r == add_conflict(fresh, from_ule(core[k]), c)
              IN /\ r.ret <=> (is_forced_false(c) /\ bvalue(c) # l_true)
                 /\ r.ret => Len(r.st.lemmas) = 1
                 /\ ~r.ret => r.st.lemmas = <<>>

\* perform has returned false after try_tangent's consequent, false under the
\* assignment, was refused by add_conflict for being true on the trail
C11_Witness ==
    /\ last_call.op = "perform" /\ ~last_call.ret
    /\ Len(core) = 1 /\ rule_input(1)
    /\ LET i == from_ule(core[1])
           c == ule(i.lhs, Const(try_eval_val(i.rhs)))
       IN /\ ~i.is_strict
          /\ ~try_tangent_is_linear(conflict_var, i)
          /\ try_eval_ok(i.lhs) /\ try_eval_ok(i.rhs)
          /\ ~is_val(i.lhs) /\ ~is_val(i.rhs)
          /\ is_currently_false(c) /\ bvalue(c) = l_true
          /\ bvalue(ule(i.rhs, Const(try_eval_val(i.rhs)))) # l_false

\* C11 as stated, semantically false being false under the model: every
\* conflict lemma ends in a consequent that evaluates to false and is not true
\* on the trail
C11_ConsequentSemanticallyFalse ==
    \A j \in 1..Len(core_lemmas) :
        LET L == core_lemmas[j]
            c == L.lits[Len(L.lits)].lit
        IN L.mode = "conflict" => is_currently_false(c) /\ bvalue(c) # l_true

\* add_conflict has finalised a lemma whose consequent is false only on the trail
C11_ReachTrailFalse ==
    \E j \in 1..Len(core_lemmas) :
        LET L == core_lemmas[j]
            c == L.lits[Len(L.lits)].lit
        IN L.mode = "conflict" /\ ~is_currently_false(c)

\* c is the literal not umul_ovfl(p, q) with {p, q} = {x, y}
IsWitnessFor(c, x, y) ==
    /\ is_umul_ovfl(c) /\ is_negative(c)
    /\ \/ c.p = x /\ c.q = y
       \/ c.p = y /\ c.q = x

\* the operands x, y a rule handed to is_non_overflow for the lemma L it emitted
NonOverflowOperands(L) ==
    LET v == conflict_var
        i1 == from_ule(neg(L.lits[Len(L.lits) - 2].lit))
        i2 == from_ule(neg(L.lits[Len(L.lits) - 1].lit))
    IN IF L.rule = tag_ugt_x THEN <<var(v), xY_y(v, i2.lhs)>>
       ELSE IF L.rule = tag_ugt_y THEN <<xY_y(v, i2.lhs), var(v)>>
       ELSE IF L.rule = tag_ugt_z THEN <<xY_y(v, i1.rhs), i2.rhs>>
       ELSE <<xY_y(v, i1.rhs), i2.rhs>>

\* C12: the witness is_non_overflow(x, y, c) hands back is not umul_ovfl(p, q)
\* with {p, q} = {x, y}, also when x and y are the same polynomial: in every
\* lemma of try_ugt_x, try_ugt_y, try_ugt_z and try_y_l_ax_and_x_l_z the first
\* literal is the negation of such a witness for the operands the rule asked
\* about, and so is the witness for every two polynomials of a trail overflow
\* literal.
C12_NonOverflowWitness ==
    /\ \A j \in LemmasOf(tag_ugt_x) \cup LemmasOf(tag_ugt_y) \cup LemmasOf(tag_ugt_z)
                 \cup LemmasOf(tag_y_l_ax_and_x_l_z) :
          LET L == core_lemmas[j]
              xy == NonOverflowOperands(L)
          IN IsWitnessFor(neg(L.lits[1].lit), xy[1], xy[2])
    /\ \A k \in 1..Len(m_search) :
          (m_search[k].is_boolean /\ is_umul_ovfl(m_search[k].lit)) =>
              \A x, y \in {m_search[k].lit.p, m_search[k].lit.q} :
                  is_non_overflow(x, y) => IsWitnessFor(non_overflow_c(x, y), x, y)

\* try_ugt_z has emitted a lemma for z <= x from the trail, the witness asked
\* for being the one of x with itself
C12_ReachSame ==
    \E j \in LemmasOf(tag_ugt_z) :
        LET xy == NonOverflowOperands(core_lemmas[j])
        IN xy[1] = xy[2]

\* the engine as a call left it, nothing logged: the builder's literals and the
\* rule tag stay in the saturation object between calls
left_over == [m_lemma |-> m_lemma, m_rule |-> m_rule, lemmas |-> <<>>, tried |-> <<>>, subs |-> <<>>]
\* the engine with a literal and a tag left by some earlier failed attempt
stale ==
    [m_lemma |-> <<[lit |-> neg(eq(var(conflict_var))), eval |-> TRUE]>>,
     m_rule |-> tag_mul_odd, lemmas |-> <<>>, tried |-> <<>>, subs |-> <<>>]

C13_ReachLeftOver == last_call.op = "perform" /\ ~last_call.ret /\ m_lemma # <<>>

\* the constraints of the core perform(v, c, core) skips
Skipped(k) == ~is_ule(core[k]) \/ is_currently_true(core[k])

\* C14: perform(v, c, core) returns false, adds no lemma and attempts no rule
\* for a constraint c of the core that is not a <=-constraint or is currently
\* true under the model: called on such a constraint it leaves the engine as
\* it was, and a call of perform(v, core) has handed to the rules no more
\* constraints than the core holds that are not skipped - all of them when it
\* returned false.
C14_SkipNotUleOrTrue ==
    /\ \A k \in 1..Len(core) :
          Skipped(k) =>
              \A st \in {fresh, stale} :
                  LET r == perform_c(st, conflict_var, core[k])
                  IN ~r.ret /\ r.st = st
    /\ last_call.op = "perform" =>
          LET handed == Cardinality({j \in 1..Len(tried) : tried[j] = "from_ule"})
              kept == Cardinality({k \in 1..Len(core) : ~Skipped(k)})
          IN /\ handed <= kept
             /\ ~last_call.ret => handed = kept
             /\ kept = 0 => tried = <<>> /\ core_lemmas = <<>>

\* perform has skipped a first constraint that is currently true and fired a
\* rule on the second
C14_Witness ==
    /\ last_call.op = "perform" /\ last_call.ret
    /\ Len(core) = 2
    /\ is_ule(core[1]) /\ is_currently_true(core[1])
    /\ Cardinality({j \in 1..Len(tried) : tried[j] = "from_ule"}) = 1

\* perform has skipped a first constraint that is not a <=-constraint
C14_ReachNotUle ==
    /\ last_call.op = "perform" /\ last_call.ret
    /\ Len(core) = 2
    /\ ~is_ule(core[1])
    /\ Cardinality({j \in 1..Len(tried) : tried[j] = "from_ule"}) = 1

\* consequents to try propagate on: the literals of the trail, their negations,
\* and x = 0, x # 0, even(x), odd(x) for every variable x
PropagateCands ==
    TrailLits \cup UNION {{eq(var(i)), neg(eq(var(i))), even(var(i)), odd(var(i))} : i \in Vars}

\* C15: propagate emits no redundant lemma: no propagation lemma of the core has
\* a consequent that is forced true, and propagate called on an inequality of
\* the core and a consequent that is true on the trail or under the model
\* returns false, leaves the builder as it was (no negated critical literal, no
\* consequent) and adds no lemma, while for any other consequent it returns
\* true and adds exactly one lemma: the builder's literals, the negated
\* critical literal, the consequent.
C15_NoRedundantPropagation ==
    /\ \A j \in 1..Len(core_lemmas) :
          LET L == core_lemmas[j]
          IN L.mode = "propagate" => ~is_forced_true(L.lits[Len(L.lits)].lit)
    /\ \A k \in 1..Len(core) : \A c \in PropagateCands : \A st \in {fresh, stale} :
          is_ule(core[k]) =>
              LET r == propagate(st, from_ule(core[k]), c)
                  forced == bvalue(c) = l_true \/ is_currently_true(c)
                  added == <<[lit |-> neg(core[k]), eval |-> FALSE], [lit |-> c, eval |-> FALSE]>>
              IN /\ forced => ~r.ret /\ r.st = st
                 /\ ~forced => /\ r.ret
                               /\ Len(r.st.lemmas) = 1
                               /\ r.st.lemmas[1].lits = st.m_lemma \o added

\* try_parity has matched a*x + b <= y with a and x odd and found odd(b)
\* already true: propagate refused it and no lemma concludes odd(b)
C15_Witness ==
    /\ last_call.op = "perform"
    /\ Len(core) = 1 /\ core[1].pos /\ is_ule(core[1]) /\ ~is_currently_true(core[1])
    /\ \E j \in 1..Len(tried) : tried[j] = "try_parity"
    /\ LET i == from_ule(core[1])
           a == factor_lc(i.lhs, conflict_var)
           b == factor_rest(i.lhs, conflict_var)
       IN /\ is_AxB_eq_0(conflict_var, i)
          /\ ~(is_max(a) /\ is_var(b)) /\ ~(is_one(a) /\ is_var(Neg(b)))
          /\ is_currently_true(odd(a)) /\ is_currently_true(odd(var(conflict_var)))
          /\ is_forced_true(odd(b))
          /\ \A j \in 1..Len(core_lemmas) :
                core_lemmas[j].lits[Len(core_lemmas[j].lits)].lit # odd(b)

\* inequalities to match: those of the trail, and the same with the sides exchanged
MatchInputs ==
    LET T == {from_ule(m_search[k].lit) :
                 k \in {j \in 1..Len(m_search) : m_search[j].is_boolean /\ is_ule(m_search[j].lit)}}
    IN T \cup {[i EXCEPT !.lhs = i.rhs, !.rhs = i.lhs] : i \in T}

\* C16: a shape matcher with a verifier that returns true has bound what its
\* verifier accepts: for every variable x and inequality i, is_Y_l_Ax, is_Ax_l_Y,
\* is_AxB_l_Y (for the a and b it was called with), is_Xy_l_XZ and is_YX_l_zX
\* imply verify_Y_l_Ax, verify_Ax_l_Y, verify_AxB_l_Y, verify_Xy_l_XZ and
\* verify_YX_l_zX on the same x, i and the bindings of the call.
C16_MatchRoundTrip ==
    \A x \in Vars : \A i \in MatchInputs :
        /\ is_Y_l_Ax(x, i) => verify_Y_l_Ax(x, i, xY_y(x, i.rhs), i.lhs)
        /\ is_Ax_l_Y(x, i) => verify_Ax_l_Y(x, i, xY_y(x, i.lhs), i.rhs)
        /\ \A a, b \in {factor_lc(i.lhs, x), factor_rest(i.lhs, x), zero, one} :
              is_AxB_l_Y(x, i, a, b) => verify_AxB_l_Y(x, i, a, b, i.rhs)
        /\ is_Xy_l_XZ(x, i) =>
              verify_Xy_l_XZ(x, i, xY_y(x, i.lhs), coeffxY_y(xY_y(x, i.lhs), i.rhs))
        /\ is_YX_l_zX(x, i) =>
              verify_YX_l_zX(x, i, xY_y(x, i.rhs), coeffxY_y(xY_y(x, i.rhs), i.lhs))

\* perform has been called on a core v*x <= z*x that is_Xy_l_XZ matches, the
\* shared factor x having the coefficient 3
C16_Witness ==
    /\ last_call.op = "perform"
    /\ is_Xy_l_XZ(conflict_var, from_ule(core[1]))
    /\ unary_coeff(xY_y(conflict_var, from_ule(core[1]).lhs)) = 3

\* is_YX_l_zX has matched the core
C16_ReachYX == \E z \in Vars : is_YX_l_zX(z, from_ule(core[1]))
\* is_AxB_l_Y has matched an inequality with b not zero
C16_ReachAxB ==
    \E i \in MatchInputs : \E x \in Vars :
        is_AxB_l_Y(x, i, factor_lc(i.lhs, x), factor_rest(i.lhs, x)) /\ ~is_zero(factor_rest(i.lhs, x))

\* C17: is_AxB_eq_0 returning true has bound what verify_AxB_eq_0 accepts, also
\* when the right-hand side y is not a constant and has the value 0: for every
\* variable x and inequality i, is_AxB_eq_0(x, i, a, b, y) implies
\* verify_AxB_eq_0(x, i, a, b, y) for the a, b, y bound by the call.
C17_EqRoundTrip ==
    \A x \in Vars : \A i \in MatchInputs :
        is_AxB_eq_0(x, i) =>
            verify_AxB_eq_0(x, i, factor_lc(i.lhs, x), factor_rest(i.lhs, x), i.rhs)

\* the lemmas of the rules that scan the trail for a second premise
ScanLemmas ==
    LemmasOf(tag_ugt_y) \cup LemmasOf(tag_ugt_z) \cup LemmasOf(tag_y_l_ax_and_x_l_z)
    \cup {j \in LemmasOf(tag_mul_bounds) : Len(core_lemmas[j].lits) = 7}

\* the premise the lemma L took from the trail, and the inequality of the core
ScanPremise(L) ==
    IF L.rule = tag_ugt_y THEN neg(L.lits[2].lit)
    ELSE IF L.rule = tag_mul_bounds THEN neg(L.lits[5].lit)
    ELSE neg(L.lits[3].lit)
ScanCore(L) ==
    IF L.rule = tag_ugt_y THEN from_ule(neg(L.lits[3].lit))
    ELSE IF L.rule = tag_mul_bounds THEN from_ule(neg(L.lits[6].lit))
    ELSE from_ule(neg(L.lits[2].lit))

\* the trail entry h has the shape the rule of L looks for
ScanShape(L, h) ==
    LET v == conflict_var
        e == from_ule(m_search[h].lit)
        c == ScanCore(L)
        a == factor_lc(c.lhs, v)
        k_val == IF e.is_strict THEN val(e.rhs) - 1 ELSE val(e.rhs)
    IN IF L.rule = tag_ugt_y THEN e.rhs = var(v)
       ELSE IF L.rule = tag_mul_bounds
       THEN is_val(e.rhs) /\ k_val > 1 /\ e.lhs \in {a, Neg(a), var(v), Neg(var(v))}
       ELSE e.lhs = var(v)

\* the attempt the rule of L makes with the trail entry h emits a lemma
ScanAttempt(L, h) ==
    LET v == conflict_var
        d == m_search[h].lit
        e == from_ule(d)
        c == ScanCore(L)
    IN IF L.rule = tag_ugt_y
       THEN LET x == xY_y(v, c.lhs)
            IN try_ugt_y_entry(fresh, v, e, c, x, coeffxY_y(x, c.rhs)).ret
       ELSE IF L.rule = tag_ugt_z
       THEN LET x == xY_y(v, c.rhs)
            IN try_ugt_z_entry(fresh, v, e, c, x, coeffxY_y(x, c.lhs)).ret
       ELSE IF L.rule = tag_y_l_ax_and_x_l_z
       THEN try_y_l_ax_and_x_l_z_entry(fresh, v, c, e, xY_y(v, c.rhs), c.lhs).ret
       ELSE LET a == factor_lc(c.lhs, v)
                m == [crit |-> c, a |-> a, b |-> factor_rest(c.lhs, v), y |-> c.rhs, X |-> var(v),
                      x_eq_0 |-> eq(var(v)), a_eq_0 |-> eq(a)]
                k_val == IF e.is_strict THEN val(e.rhs) - 1 ELSE val(e.rhs)
                Y == IF e.lhs \in {a, Neg(a)} THEN var(v) ELSE a
                bound == CHOOSE q \in 0..two_to_N :
                            q * k_val >= two_to_N /\ \A r \in 0..(q - 1) : r * k_val < two_to_N
            IN \/ mul_bounds_prop2(fresh, m, d, uge(Y, bound)).ret
               \/ mul_bounds_prop2(fresh, m, d, uge(Neg(Y), bound)).ret

\* the position on the trail of the premise of L
ScanIndex(L) ==
    {k \in 1..Len(m_search) : m_search[k].is_boolean /\ m_search[k].lit = ScanPremise(L)}

\* C18: try_ugt_y, try_ugt_z, try_y_l_ax_and_x_l_z and the bound part of
\* try_mul_bounds take their second premise from a trail entry that is boolean,
\* not resolved, a <=-constraint and of the shape the rule looks for; it is the
\* first such entry, in trail order, whose attempt emits a lemma - every earlier
\* entry of that kind was tried and failed - and the failed attempts have added
\* nothing to the conflict: the call has added this one lemma only.
C18_ScanFirstEmitting ==
    /\ \A j \in ScanLemmas :
          LET L == core_lemmas[j]
          IN /\ ScanIndex(L) # {}
             /\ \A k \in ScanIndex(L) :
                   /\ m_search[k].is_boolean /\ ~m_search[k].is_resolved
                   /\ is_ule(m_search[k].lit)
                   /\ ScanShape(L, k)
                   /\ ScanAttempt(L, k)
                   /\ \A h \in 1..(k - 1) :
                         (is_scanned(h) /\ ScanShape(L, h)) => ~ScanAttempt(L, h)
    /\ ScanLemmas # {} => Len(core_lemmas) = 1 /\ last_call.added = 1

\* try_ugt_y has taken its premise from the second entry of the right shape,
\* after the attempt with the first, unresolved one failed
C18_Witness ==
    \E j \in LemmasOf(tag_ugt_y) :
        LET L == core_lemmas[j]
        IN \E k \in ScanIndex(L) : \E h \in 1..(k - 1) :
              is_scanned(h) /\ ScanShape(L, h) /\ ~ScanAttempt(L, h)

\* a rule has passed over a resolved entry whose attempt would have emitted a lemma
C18_ReachResolved ==
    \E j \in ScanLemmas :
        LET L == core_lemmas[j]
        IN \E k \in ScanIndex(L) : \E h \in 1..(k - 1) :
              /\ m_search[h].is_boolean /\ m_search[h].is_resolved /\ is_ule(m_search[h].lit)
              /\ ScanShape(L, h) /\ ScanAttempt(L, h)

\* the bound part of try_mul_bounds has gone on after an entry whose attempt failed
C18_ReachMulBounds ==
    \E j \in LemmasOf(tag_mul_bounds) :
        LET L == core_lemmas[j]
        IN Len(L.lits) = 7 /\ \E k \in ScanIndex(L) : \E h \in 1..(k - 1) :
              is_scanned(h) /\ ScanShape(L, h) /\ ~ScanAttempt(L, h)

\* the rule with the tag t, called on the inequality i from the engine state st
RuleByTag(t, st, v, i) ==
    IF t = tag_ugt_x THEN try_ugt_x(st, v, i)
    ELSE IF t = tag_ugt_y THEN try_ugt_y(st, v, i)
    ELSE IF t = tag_ugt_z THEN try_ugt_z(st, v, i)
    ELSE IF t = tag_y_l_ax_and_x_l_z THEN try_y_l_ax_and_x_l_z(st, v, i)
    ELSE IF t = tag_mul_bounds THEN try_mul_bounds(st, v, i)
    ELSE IF t = tag_mul_eq_1 THEN try_mul_eq_1(st, v, i)
    ELSE IF t = tag_parity THEN try_parity(st, v, i)
    ELSE IF t = tag_mul_odd THEN try_mul_odd(st, v, i)
    ELSE try_tangent(st, v, i)

\* the literals a lemma of the rule with tag t is made of: side literals,
\* negated critical premises, one consequent
LemmaSizes(t) ==
    IF t = tag_ugt_x THEN {3, 4}
    ELSE IF t \in {tag_ugt_y, tag_ugt_z, tag_y_l_ax_and_x_l_z} THEN {4}
    ELSE IF t = tag_mul_bounds THEN {6, 7}
    ELSE IF t = tag_mul_eq_1 THEN {5}
    ELSE IF t = tag_parity THEN {4, 5}
    ELSE IF t = tag_mul_odd THEN {5, 6}
    ELSE {3}

\* C19: a lemma handed to conflict.add_lemma holds only the literals its own
\* attempt inserted after its reset: it has the number of literals of its rule
\* (side literals, negated critical premises, one consequent), holds the
\* negation of an inequality of the core, and is the lemma the same rule emits for the same
\* inequality of the core from an empty builder and from a builder that holds a
\* literal of an earlier failed attempt, which therefore never shows in it.
C19_OnlyOwnLiterals ==
    \A j \in 1..Len(core_lemmas) :
        LET L == core_lemmas[j]
            n == Len(L.lits)
            crits == {k \in 1..Len(core) : \E h \in 1..n : L.lits[h].lit = neg(core[k])}
        IN /\ n \in LemmaSizes(L.rule)
           /\ crits # {}
           /\ \E k \in crits : \A st \in {fresh, stale} :
                 LET r == RuleByTag(L.rule, st, conflict_var, from_ule(core[k]))
                 IN r.ret /\ r.st.lemmas = <<L>>

\* try_ugt_y has emitted its lemma with the second trail entry after the
\* attempt with the first left its literals in the builder
C19_Witness ==
    \E j \in LemmasOf(tag_ugt_y) :
        LET L == core_lemmas[j]
            c == ScanCore(L)
            x == xY_y(conflict_var, c.lhs)
        IN \E k \in ScanIndex(L) : \E h \in 1..(k - 1) :
              /\ is_scanned(h) /\ ScanShape(L, h)
              /\ LET r == try_ugt_y_entry(fresh, conflict_var, from_ule(m_search[h].lit), c, x,
                                          coeffxY_y(x, c.rhs))
                 IN ~r.ret /\ Len(r.st.m_lemma) = 3

\* the slices the visitor of the query made was invoked on: for the suffixes the
\* walk ends with the first slice whose offset is not 0
Visited ==
    LET stops == {k \in 1..Len(bv_walk) : bv_walk[k].offset # 0}
    IN IF bv_call = "get_bitvector_suffixes" /\ stops # {}
       THEN 1..MinOf(stops)
       ELSE 1..Len(bv_walk)

\* the visited slices whose class holds the theory variable w
VisitsOf(w) == {k \in Visited : \E i \in 1..Len(bv_walk[k].n) : bv_walk[k].n[i] = w}

\* C20: within one call of get_bitvector_suffixes, get_bitvector_sub_slices or
\* get_bitvector_super_slices every theory variable has at most one entry in
\* out; the entry is the polynomial variable of its polynomial with the offset
\* of the first visited slice whose class holds it; a theory variable whose
\* polynomial is not a plain variable has none.
C20_OneEntryPerTheoryVar ==
    bv_call # "none" =>
        \A w \in ThVars :
            LET E == {j \in 1..Len(out) : out[j].w = w}
            IN /\ Cardinality(E) <= 1
               /\ ~is_var(m_var2pdd[w]) => E = {}
               /\ \A j \in E :
                     /\ VisitsOf(w) # {}
                     /\ out[j].offset = bv_walk[MinOf(VisitsOf(w))].offset
                     /\ out[j].var = unary_var(m_var2pdd[w])

\* a query has visited the class of a theory variable at two offsets and out
\* holds its entry for the first of them
C20_Witness ==
    /\ bv_call = "get_bitvector_sub_slices"
    /\ \E w \in ThVars :
          /\ \E k, h \in VisitsOf(w) : k < h /\ bv_walk[k].offset # bv_walk[h].offset
          /\ \E j \in 1..Len(out) : out[j].w = w

\* the suffix query has stopped at a slice whose offset is not 0
C20_ReachSuffixStop ==
    /\ bv_call = "get_bitvector_suffixes"
    /\ out # <<>>
    /\ Cardinality(Visited) < Len(bv_walk)

\* the super-slice query has passed over a theory variable that is not a plain variable
C20_ReachNotVar ==
    /\ bv_call = "get_bitvector_super_slices"
    /\ \E w \in ThVars : ~is_var(m_var2pdd[w]) /\ VisitsOf(w) # {}
    /\ out # <<>>

\* C21: in the last branch of try_parity the unsigned b_parity - i never wraps:
\* whenever the loop computes it, for the consequence of a propagate2, i is in
\* [1, K) and i <= b_parity; and with i = b_parity the propagate2 adds its
\* lemma, so that the call returns there and the loop goes no further.
C21_ParitySubNeverWraps ==
    \A k \in 1..Len(parity_subs) :
        LET b_parity == parity_subs[k][1]
            i == parity_subs[k][2]
        IN /\ i \in 1..(K - 1)
           /\ b_parity \in 1..(K - 1)
           /\ i <= b_parity
           /\ i = b_parity =>
                 /\ k = Len(parity_subs)
                 /\ last_call.ret
                 /\ core_lemmas # <<>>
                 /\ core_lemmas[Len(core_lemmas)].rule = tag_parity

\* the loop has passed i = 1 with a propagate2 that added nothing, and has
\* computed b_parity - i = 0 at i = 2
C21_Witness ==
    /\ Len(parity_subs) >= 2
    /\ parity_subs[1][2] = 1
    /\ parity_subs[1][1] = 2
    /\ parity_subs[Len(parity_subs)] = <<2, 2>>

\* the loop has computed b_parity - i = 0 at its first index
C21_ReachFirst == parity_subs = <<(<<1, 1>>)>>

\* the visits of the walk at which consume_slice of get_fixed_bits pushes a
\* fixed slice: a numeral whose root has a theory variable that is a plain variable
FixedHit(k) ==
    /\ bv_walk[k].n.interpreted
    /\ bv_walk[k].n.th_var # null_theory_var
    /\ is_var(m_var2pdd[bv_walk[k].n.th_var])

\* C22: get_fixed_bits and explain_fixed agree on the range encoding: for the
\* fixed slice (lo, hi, value) that get_fixed_bits has appended for a numeral
\* of bit width w found at offset lo, the numeral explain_fixed builds for the
\* same (lo, hi, value), of width hi - lo + 1, has bit width w.
C22_FixedWidthAgrees ==
    bv_call = "explain_fixed" =>
        \A k \in 1..Len(bv_walk) :
            (FixedHit(k) /\ \A h \in 1..(k - 1) : ~FixedHit(h)) =>
                /\ out = <<fixed_slice(bv_walk[k].offset, bv_walk[k].n.bv_size, bv_walk[k].n.value)>>
                /\ fixed_val.size = bv_walk[k].n.bv_size

\* explain_fixed has built a numeral of the bit width of the slice: the slice
\* was found at offset 1
C22_ReachAgree ==
    /\ bv_call = "explain_fixed"
    /\ out # <<>>
    /\ out[1].lo = 1
    /\ fixed_val.size = out[1].hi

\* get_fixed_bits has passed a numeral without theory variable and one whose
\* variable is not a plain variable, and has stopped at the first that is one
C22_ReachStop ==
    /\ bv_call = "get_fixed_bits"
    /\ Len(out) = 1
    /\ Len(bv_walk) = 3
    /\ FixedHit(2) /\ FixedHit(3) /\ ~FixedHit(1)

====
